---- MODULE Spec2Model ----
(***************************************************************************)
(* Allocation & Reconciliation Engine of flowshare-v2.                     *)
(*                                                                         *)
(* The model follows backend/agents/accountant/main.py: the Pub/Sub        *)
(* callback (async_callback) and perform_reconciliation, one action per    *)
(* awaited call of the coroutine, together with the publisher's retry      *)
(* loop and the module-level Pub/Sub circuit breaker it runs through.      *)
(* Every delivery of a trigger message is handled by its own callback      *)
(* invocation; invocations are scheduled on one event loop and interleave  *)
(* at their await points.                                                  *)
(***************************************************************************)
EXTENDS Integers, Sequences, FiniteSets, TLC

----------------------------------------------------------------------------
(* Bounds of the model *)

\* deliveries of trigger messages (first deliveries, duplicates, redeliveries)
MaxDeliveries == 2

\* production entries of the period in the concurrent specification
MaxRunEntries == 2

\* production entries of the period in the gate specification
MaxEntries == 10

\* deliveries handled in the two-run specification
MaxHandled == 3

\* the failures in a row that the Pub/Sub breaker counts in the progress
\* specification: one more than its threshold
MaxFailureCount == 6

\* partner inputs of a call of allocate_volumes
MaxPartners == 2

\* gross volume of a partner input, in barrels
MaxGross == 2

\* terminal volume of a call of allocate_volumes, in barrels
MaxTerminal == 2

\* significant bits of a floating-point number (Python floats have 53)
MantissaBits == 6

\* readings of a period that are free in partner, status and measurement
MaxReadings == 3

\* further approved readings of a long period
LongPeriod == 9

\* calls made through the breaker by the caller of the breaker specification
MaxCalls == 10

\* callers whose calls through one breaker may overlap
MaxCallers == 3

\* largest max_attempts of a retry policy
MaxAttempts == 3

\* production entries created while a run is in progress
MaxCreated == 2

----------------------------------------------------------------------------
(* Program constants *)

\* main.py:104  if approval_percentage < 90.0
APPROVAL_THRESHOLD == 90

\* publisher.py:23  @async_retry(max_attempts=3, ...)
max_attempts == 3

\* circuit_breaker.py:273  pubsub_breaker = CircuitBreaker(failure_threshold=5, ...)
failure_threshold == 5

RunIds == {"r1", "r2"}
Deliveries == 1..MaxDeliveries

----------------------------------------------------------------------------
VARIABLES
    runs,         \* reconciliations collection: run id -> document
    entries,      \* production entries of the tenant's period (counts by status)
    tenant_exists,\* whether the tenants collection holds the tenant's document
    pending,      \* trigger subscription: messages waiting for delivery, per run
    delivered,    \* number of deliveries made so far
    cb,           \* callback invocation of each delivery: position and locals
    breaker,      \* module-level pubsub_breaker of the accountant process
    completions,  \* completion topic: notifications published, per run
    engine,       \* a call of AllocationEngine.allocate_volumes: arguments, outcome
    calls,        \* calls made through the breaker by callers of their own
    retry,        \* a call of a function wrapped by async_retry: policy, progress
    api           \* a POST /reconciliations request: body, position

vars == <<runs, entries, tenant_exists, pending, delivered, cb, breaker, completions,
          engine, calls, retry, api>>

----------------------------------------------------------------------------
(* Documents and messages *)

\* error_message values; text is the message, the numbers are the ones the
\* f-string interpolates (0 where it interpolates none)
ErrorMessage(text, approved, total, pct10) ==
    [text |-> text, approved |-> approved, total |-> total, pct10 |-> pct10]

NoMessage == ErrorMessage("", 0, 0, 0)

\* result of a run; named: whether partner_name of the allocations is the name
\* found in the users collection (main.py:136-146) and not the fallback
NoResult == [present |-> FALSE, partners |-> 0, named |-> FALSE]

NoDocument ==
    [exists |-> FALSE, status |-> "none", result |-> NoResult,
     error_message |-> NoMessage, completed_at |-> FALSE, ai_analysis |-> FALSE]

\* reconciliation_result.model_dump(): the allocation of the approved entries
\* that were aggregated, under the partner names that were found (main.py:199-226)
ComputeResult(approved, named) ==
    [present |-> TRUE, partners |-> approved, named |-> named]

\* main.py:277 a callback invocation that has not been scheduled yet
IdleCallback ==
    [pc |-> "idle", rid |-> "none", seen |-> "none", total |-> 0, approved |-> 0,
     invalid |-> FALSE, msg |-> NoMessage, exc |-> "none", raised_at |-> "none",
     attempt |-> 0, ai |-> FALSE, named |-> FALSE]

----------------------------------------------------------------------------
(* Approval gate, main.py:96-124 *)

\* f"{approval_percentage:.1f}": the percentage in tenths, rounded to nearest,
\* ties to even (the tie cases within the bounds are exact binary fractions)
Format1f(approved, total) ==
    LET q == (approved * 1000) \div total
        r == (approved * 1000) % total
    IN  IF 2 * r > total THEN q + 1
        ELSE IF 2 * r < total THEN q
        ELSE q + (q % 2)

\* the comparison with <= in place of <
ApprovalBelowThresholdOffByOne(approved, total) ==
    approved * 100 <= APPROVAL_THRESHOLD * total

\* main.py:99,104  (approved / total) * 100 < 90.0, for total > 0
ApprovalBelowThreshold(approved, total) ==
    approved * 100 < APPROVAL_THRESHOLD * total

\* main.py:83
NoEntriesMessage == ErrorMessage("No production entries found for the period.", 0, 0, 0)

\* main.py:105-109
InsufficientMessage(approved, total) ==
    ErrorMessage("Insufficient approved production data for reconciliation.",
                 approved, total, Format1f(approved, total))

\* main.py:122
NoApprovedMessage ==
    ErrorMessage("No approved production entries found for the period.", 0, 0, 0)

\* main.py:266  "error_message": str(e)
ExceptionMessage(e) == ErrorMessage(e, 0, 0, 0)

\* the early returns without the threshold check of main.py:104
GateMessageNoThreshold(approved, total) ==
    IF approved = 0 THEN NoApprovedMessage ELSE NoMessage

\* main.py:104-124: the message of the early return taken after the approved
\* query, NoMessage when the run proceeds to aggregation
GateMessage(approved, total) ==
    IF ApprovalBelowThreshold(approved, total)
    THEN InsufficientMessage(approved, total)
    ELSE IF approved = 0
         THEN NoApprovedMessage
         ELSE NoMessage

----------------------------------------------------------------------------
(* Circuit breaker, shared/utils/circuit_breaker.py *)

\* circuit_breaker.py:70-72; last_failure_time is "none", "recent" (within the
\* recovery timeout) or "elapsed" (more than recovery_timeout seconds ago)
NewBreaker == [state |-> "closed", failure_count |-> 0, last_failure_time |-> "none"]

\* circuit_breaker.py:104-111
on_success(b) ==
    [state |-> IF b.state = "half_open" THEN "closed" ELSE b.state,
     failure_count |-> 0,
     last_failure_time |-> "none"]

\* a breaker that opens one failure late
on_failure_late(b) ==
    [state |-> IF b.failure_count + 1 > failure_threshold THEN "open" ELSE b.state,
     failure_count |-> b.failure_count + 1,
     last_failure_time |-> "recent"]

\* circuit_breaker.py:113-127
on_failure(b) ==
    [state |-> IF b.failure_count + 1 >= failure_threshold THEN "open" ELSE b.state,
     failure_count |-> b.failure_count + 1,
     last_failure_time |-> "recent"]

\* a breaker that lets every call through
never_rejects(b) == FALSE

\* circuit_breaker.py:74-87: whether __aenter__ raises CircuitBreakerError
Rejects(b) == b.state = "open" /\ b.last_failure_time # "elapsed"

\* circuit_breaker.py:74-87: the breaker after an __aenter__ that does not raise
Entered(b) ==
    IF b.state = "open" THEN [b EXCEPT !.state = "half_open"] ELSE b

\* circuit_breaker.py:89-102: the breaker after __aexit__ of a block that
\* returned ("success"), raised an instance of expected_exception
\* ("Exception") or raised another BaseException ("CancelledError")
Exited(b, outcome) ==
    CASE outcome = "success" -> on_success(b)
      [] outcome = "Exception" -> on_failure(b)
      [] OTHER -> b

\* circuit_breaker.py:129-134  reset()
reset(b) == NewBreaker

\* no call was made by the callers of the breaker specifications; made counts
\* the calls, outcome and invoked tell how the last one ended and whether
\* the protected operation ran, streak counts the calls that raised the
\* expected exception since the last one that returned, and inside holds
\* the callers that are suspended in the protected block
NoCalls ==
    [made |-> 0, outcome |-> "none", invoked |-> FALSE, streak |-> 0,
     inside |-> {}]

----------------------------------------------------------------------------
(* async_retry, shared/utils/circuit_breaker.py:137-195.  Delays are whole *)
(* seconds.                                                                *)

RECURSIVE Power(_, _)
Power(b, n) == IF n = 0 THEN 1 ELSE b * Power(b, n - 1)

Min(x, y) == IF x <= y THEN x ELSE y

\* publisher.py:22-27  @async_retry(max_attempts=3, initial_delay=1.0,
\* max_delay=10.0, exceptions=(Exception,)); exponential_base is the default
\* of circuit_breaker.py:141
PublishPolicy ==
    [max_attempts |-> max_attempts, initial_delay |-> 1, max_delay |-> 10,
     exponential_base |-> 2]

\* the arguments of the decorator: those of publish_message, those of
\* analyze_reconciliation (gemini_service.py:96-101: 3, 2.0, 10.0) and others
\* with a max_delay that is reached by the second sleep
RetryPolicies ==
    [max_attempts : 1..MaxAttempts, initial_delay : {1, 2}, max_delay : {3, 10},
     exponential_base : {2, 3}]

\* a backoff without the cap of max_delay
delay_uncapped(policy, attempt) ==
    policy.initial_delay * Power(policy.exponential_base, attempt - 1)

\* circuit_breaker.py:178-181  min(initial_delay * (exponential_base **
\* (attempt - 1)), max_delay)
delay(policy, attempt) ==
    Min(policy.initial_delay * Power(policy.exponential_base, attempt - 1),
        policy.max_delay)

\* circuit_breaker.py:142, publisher.py:26  exceptions=(Exception,): the
\* outcomes of an attempt that the wrapper catches
Retried == {"Exception"}

\* no call of a wrapped function is looked at; attempt is the loop variable,
\* invocations counts the calls of func, failures those that raised a caught
\* exception, slept lists the delays slept so far, ended is "returned" or
\* "raised" once the wrapper is left, with outcome the way the last attempt
\* (or sleep) ended
NoRetry ==
    [policy |-> PublishPolicy, pc |-> "idle", attempt |-> 0, invocations |-> 0,
     failures |-> 0, slept |-> <<>>, ended |-> "none", outcome |-> "none"]

\* POST /reconciliations, no request received yet: pc is the position of the
\* handler ("set", "publish") or the way the request ended ("rejected",
\* "raised", "returned"), rid the uuid it drew, terminal_volume the field of
\* the request body and of reconciliation_doc, attempt the attempt of
\* publish_message
NoRequest ==
    [pc |-> "none", rid |-> "none", terminal_volume |-> 0, raised |-> "none",
     attempt |-> 0]

\* a terminal volume that may be zero
terminal_volume_ge_0(terminal_volume) == terminal_volume >= 0

\* shared/models/reconciliation.py:39  terminal_volume: float = Field(gt=0)
terminal_volume_gt_0(terminal_volume) == terminal_volume > 0

----------------------------------------------------------------------------
(* Floating-point numbers.  A float is held as an integer number of units  *)
(* of 1/Unit.  Every operation rounds its exact result to MantissaBits     *)
(* significant bits, to nearest, ties to even, as Python's float           *)
(* operations do with 53 bits.                                             *)

Unit == 65536

RECURSIVE Pow2(_)
Pow2(n) == IF n = 0 THEN 1 ELSE 2 * Pow2(n - 1)

RECURSIVE GCD(_, _)
GCD(a, b) == IF b = 0 THEN a ELSE GCD(b, a % b)

\* the least number that has more than MantissaBits bits
MantissaLimit == Pow2(MantissaBits)

\* the spacing of the floats around q: the least power of two u, from u up,
\* with q < u * 2^MantissaBits
RECURSIVE Ulp(_, _)
Ulp(q, u) == IF q < u * MantissaLimit THEN u ELSE Ulp(q, 2 * u)

\* the float nearest to num / den, for num >= 0 in units of 1/Unit and den > 0
Nearest(num, den) ==
    IF num = 0 THEN 0
    ELSE LET q == num \div den
             u == Ulp(q, 1)
             lower == (q \div u) * u
             twice == 2 * (num - lower * den)
         IN  IF twice > u * den THEN lower + u
             ELSE IF twice < u * den THEN lower
             ELSE IF (lower \div u) % 2 = 0 THEN lower ELSE lower + u

Abs(x) == IF x < 0 THEN 0 - x ELSE x

\* the sign of x as a factor
Sign(x) == IF x < 0 THEN 0 - 1 ELSE 1

\* rounding is symmetric about 0
Float(num, den) == Sign(num) * Nearest(Abs(num), den)

\* float(n) of an integer n
FloatOf(n) == Float(n * Unit, 1)

\* x + y, x - y, x * y and x / y (for y > 0) of floats; the fractions are
\* reduced before they are scaled
FloatAdd(x, y) == Float(x + y, 1)

FloatSub(x, y) == Float(x - y, 1)

FloatMul(x, y) ==
    LET g1 == GCD(Abs(x), Unit)
        g2 == GCD(Abs(y), Unit \div g1)
    IN  Sign(x) * Sign(y)
            * Nearest((Abs(x) \div g1) * (Abs(y) \div g2), Unit \div (g1 * g2))

FloatDiv(x, y) ==
    LET g == GCD(Abs(x), y)
    IN  Sign(x) * Nearest((Abs(x) \div g) * Unit, y \div g)

\* sum(values) of the first n of a sequence of floats, added in order
RECURSIVE FloatSum(_, _)
FloatSum(values, n) ==
    IF n = 0 THEN 0 ELSE FloatAdd(FloatSum(values, n - 1), values[n])

----------------------------------------------------------------------------
(* AllocationEngine, agents/accountant/allocation_engine.py.  A partner    *)
(* input (ProductionData) holds gross_volume in barrels, bsw_percent,      *)
(* temperature in degrees F and api_gravity as integers; the inputs of     *)
(* this model are at or above the standard temperature.                    *)

\* allocation_engine.py:72  temperature_standard: float = 60.0
temperature_standard == 60

\* allocation_engine.py:86-88  sg = 141.5 / (api_gravity + 131.5)
calculate_specific_gravity(api_gravity) ==
    FloatDiv(Float(283 * Unit, 2), FloatAdd(FloatOf(api_gravity), Float(263 * Unit, 2)))

\* allocation_engine.py:104  water_cut = 1.0 - (bsw_percent / 100.0)
calculate_water_cut_factor(bsw_percent) ==
    FloatSub(FloatOf(1), FloatDiv(FloatOf(bsw_percent), FloatOf(100)))

\* the net volume of one barrel, whatever the gross volume
net_of_one_barrel(gross_volume, water_cut_factor) == water_cut_factor

\* allocation_engine.py:113  net_volume = gross_volume * water_cut_factor
calculate_net_observed_volume(gross_volume, water_cut_factor) ==
    FloatMul(FloatOf(gross_volume), water_cut_factor)

\* allocation_engine.py:131-142  ctl = 1.0 - (alpha * delta_t) - (beta * delta_t * delta_t)
\* with alpha = 0.000347 (0.000400 from api_gravity 50 on) and beta = 0.000002;
\* each product is rounded once
calculate_temperature_correction(observed_temp, api_gravity) ==
    LET delta_t == observed_temp - temperature_standard
        alpha == IF api_gravity < 50 THEN 347 ELSE 400
    IN  FloatSub(FloatSub(FloatOf(1), Float(alpha * delta_t * Unit, 1000000)),
                 Float(2 * delta_t * delta_t * Unit, 1000000))

\* allocation_engine.py:161-168  temp_effect = 1.0 + 0.0004 * (T - Ts);
\* sg_observed = sg_standard / temp_effect; cpl = sg_standard / sg_observed
calculate_api_correction(observed_temp, api_gravity) ==
    LET sg_standard == calculate_specific_gravity(api_gravity)
        temp_effect == FloatAdd(FloatOf(1),
                                Float(4 * (observed_temp - temperature_standard) * Unit,
                                      10000))
        sg_observed == FloatDiv(sg_standard, temp_effect)
    IN  FloatDiv(sg_standard, sg_observed)

\* allocation_engine.py:193  nsv = net_observed_volume * temperature_correction * api_correction
calculate_net_standard_volume(net_observed_volume, temperature_correction, api_correction) ==
    FloatMul(FloatMul(net_observed_volume, temperature_correction), api_correction)

\* a check that lets negative percentages pass
above_100(bsw_percent) == bsw_percent > 100

\* allocation_engine.py:86-87  if api_gravity <= 0: raise ValueError
specific_gravity_raises(api_gravity) == api_gravity <= 0

\* allocation_engine.py:101-102  if bsw_percent < 0 or bsw_percent > 100: raise ValueError
water_cut_factor_raises(bsw_percent) == bsw_percent < 0 \/ bsw_percent > 100

\* allocation_engine.py:229, 240-241: the input passes the checks of
\* calculate_water_cut_factor and of calculate_specific_gravity (called by
\* calculate_api_correction, allocation_engine.py:167)
Accepted(data) ==
    /\ ~water_cut_factor_raises(data.bsw_percent)
    /\ ~specific_gravity_raises(data.api_gravity)

\* allocation_engine.py:228-249: the net standard volume of one partner input
NetStandard(data) ==
    calculate_net_standard_volume(
        calculate_net_observed_volume(data.gross_volume,
                                      calculate_water_cut_factor(data.bsw_percent)),
        calculate_temperature_correction(data.temperature, data.api_gravity),
        calculate_api_correction(data.temperature, data.api_gravity))

\* allocation_engine.py:18  partner_id: str; the partners are numbered
PartnerIds == 1..MaxPartners

\* bsw_percent of an input at standard conditions: dry oil, a tenth of
\* water (1 - 10/100 is not a float), all water
BswValues == {0, 10, 100}

\* measurements at the standard temperature with a valid bsw_percent and
\* api_gravity
StandardInputs ==
    [gross_volume : 0..MaxGross, bsw_percent : BswValues,
     temperature : {temperature_standard}, api_gravity : {35}]

\* one barrel of dry oil at standard conditions
OneBarrel ==
    [gross_volume |-> 1, bsw_percent |-> 0,
     temperature |-> temperature_standard, api_gravity |-> 35]

\* measurements with a bsw_percent below 0 or above 100, with an api_gravity
\* of 0 or below, and one above the standard temperature
SpecialInputs ==
    {[OneBarrel EXCEPT !.bsw_percent = b] : b \in {0 - 10, 150}}
        \cup {[OneBarrel EXCEPT !.api_gravity = a] : a \in {0 - 5, 0}}
        \cup {[OneBarrel EXCEPT !.temperature = 100]}

\* allocation_engine.py:20-23: the measured fields of the partner inputs
Measurements == StandardInputs \cup SpecialInputs

\* the measured fields of a partner input
Measurement(data) ==
    [gross_volume |-> data.gross_volume, bsw_percent |-> data.bsw_percent,
     temperature |-> data.temperature, api_gravity |-> data.api_gravity]

\* allocation_engine.py:14-24: the partner input of partner_id with the
\* measurement m
ProductionData(partner_id, m) ==
    [partner_id |-> partner_id, gross_volume |-> m.gross_volume,
     bsw_percent |-> m.bsw_percent, temperature |-> m.temperature,
     api_gravity |-> m.api_gravity]

\* allocation_engine.py:228-262: the net standard volume of every accepted
\* measurement, computed once per input and kept with it (the correction
\* functions are pure)
\* allocation_engine.py:251-262: the intermediate result kept for an input
Intermediate(m, net_observed, temp_correction, api_correction) ==
    [data |-> m,
     net_observed |-> net_observed,
     temp_correction |-> temp_correction,
     api_correction |-> api_correction,
     net_standard |-> calculate_net_standard_volume(net_observed, temp_correction,
                                                    api_correction)]

NetStandardVolumes ==
    {Intermediate(m,
                  calculate_net_observed_volume(
                      m.gross_volume, calculate_water_cut_factor(m.bsw_percent)),
                  calculate_temperature_correction(m.temperature, m.api_gravity),
                  calculate_api_correction(m.temperature, m.api_gravity)) :
        m \in {m \in Measurements : Accepted(m)}}

\* allocation_engine.py:268-269  the intermediate result of an input
IntermediateOf(data) ==
    CHOOSE r \in NetStandardVolumes : r.data = Measurement(data)

\* allocation_engine.py:270  result["net_standard"]
NetStandardOf(data) == IntermediateOf(data).net_standard

\* allocation_engine.py:225, 251: total_net_standard_volume += net_standard,
\* over the first n inputs in their order
RECURSIVE TotalNetStandard(_, _)
TotalNetStandard(production_data, n) ==
    IF n = 0 THEN 0
    ELSE FloatAdd(TotalNetStandard(production_data, n - 1),
                  NetStandardOf(production_data[n]))

\* the share as a fraction, not as a percentage
ownership_fraction(net_standard, total_net_standard_volume) ==
    IF total_net_standard_volume > 0
    THEN FloatDiv(net_standard, total_net_standard_volume)
    ELSE 0

\* allocation_engine.py:271-275
ownership_percent(net_standard, total_net_standard_volume) ==
    IF total_net_standard_volume > 0
    THEN FloatMul(FloatDiv(net_standard, total_net_standard_volume), FloatOf(100))
    ELSE 0

\* the terminal volume times the percentage, not divided by 100
percent_of_terminal(terminal_volume, ownership) ==
    FloatMul(FloatOf(terminal_volume), ownership)

\* allocation_engine.py:277  terminal_volume * (ownership_percent / 100.0)
allocated_volume(terminal_volume, ownership) ==
    FloatMul(FloatOf(terminal_volume), FloatDiv(ownership, FloatOf(100)))

\* allocation_engine.py:279-302: the result of one partner
ResultOf(data, result, ownership, total_net_standard_volume, terminal_volume) ==
    [partner_id |-> data.partner_id,
     gross_volume |-> data.gross_volume,
     bsw_percent |-> data.bsw_percent,
     net_volume_observed |-> result.net_observed,
     observed_temperature |-> data.temperature,
     temperature_correction_factor |-> result.temp_correction,
     api_correction_factor |-> result.api_correction,
     net_volume_standard |-> result.net_standard,
     ownership_percent |-> ownership,
     allocated_volume |-> allocated_volume(terminal_volume, ownership),
     total_net_standard_volume |-> total_net_standard_volume]

\* allocation_engine.py:268-277: result is the intermediate result of the
\* input, ownership its share of the pool
AllocationResult(data, total_net_standard_volume, terminal_volume) ==
    ResultOf(data, IntermediateOf(data),
             ownership_percent(NetStandardOf(data), total_net_standard_volume),
             total_net_standard_volume, terminal_volume)

\* the results in the reverse order of the inputs
allocate_volumes_reversed(production_data, terminal_volume) ==
    IF \E i \in DOMAIN production_data : ~Accepted(production_data[i])
    THEN [raised |-> "ValueError", allocation_results |-> <<>>]
    ELSE [raised |-> "none",
          allocation_results |->
              [i \in DOMAIN production_data |->
                  AllocationResult(production_data[Len(production_data) + 1 - i],
                                   TotalNetStandard(production_data, Len(production_data)),
                                   terminal_volume)]]

\* allocation_engine.py:202-310: a ValueError of a correction function leaves
\* the call before anything is returned
allocate_volumes(production_data, terminal_volume) ==
    IF \E i \in DOMAIN production_data : ~Accepted(production_data[i])
    THEN [raised |-> "ValueError", allocation_results |-> <<>>]
    ELSE [raised |-> "none",
          allocation_results |->
              [i \in DOMAIN production_data |->
                  AllocationResult(production_data[i],
                                   TotalNetStandard(production_data, Len(production_data)),
                                   terminal_volume)]]

\* every reading, whatever its status
every_status(readings) == readings

\* main.py:87-93  .where("status", "==", ProductionEntryStatus.APPROVED.value)
\* over the readings of the period
approved_entries(readings) ==
    SelectSeq(readings, LAMBDA entry : entry.status = "approved")

\* main.py:149-157: the accumulator of a partner seen for the first time
NewPartnerData(partner_id) ==
    [partner_id |-> partner_id, gross_volume |-> 0, bsw_sum |-> 0,
     temp_sum |-> 0, api_sum |-> 0, count |-> 0]

\* main.py:159-163: the accumulator of a partner after one more entry
AddEntry(data, entry) ==
    [data EXCEPT !.gross_volume = FloatAdd(@, FloatOf(entry.gross_volume)),
                 !.bsw_sum = FloatAdd(@, FloatOf(entry.bsw_percent)),
                 !.temp_sum = FloatAdd(@, FloatOf(entry.temperature)),
                 !.api_sum = FloatAdd(@, FloatOf(entry.api_gravity)),
                 !.count = @ + 1]

\* main.py:127-163: partner_data after the first n approved entries; a dict
\* keeps its keys in the order of their insertion
RECURSIVE partner_data(_, _)
partner_data(approved_docs, n) ==
    IF n = 0 THEN <<>>
    ELSE LET before == partner_data(approved_docs, n - 1)
             entry == approved_docs[n]
             known == \E k \in DOMAIN before :
                          before[k].partner_id = entry.partner_id
             with == IF known THEN before
                     ELSE Append(before, NewPartnerData(entry.partner_id))
         IN  [k \in DOMAIN with |->
                 IF with[k].partner_id = entry.partner_id
                 THEN AddEntry(with[k], entry)
                 ELSE with[k]]

\* main.py:165-178: one ProductionData per key of partner_data, with the
\* gross volumes summed and the other measurements averaged; the values are
\* floats
production_inputs(approved_docs) ==
    LET grouped == partner_data(approved_docs, Len(approved_docs))
    IN  [k \in DOMAIN grouped |->
            [partner_id |-> grouped[k].partner_id,
             gross_volume |-> grouped[k].gross_volume,
             bsw_percent |-> FloatDiv(grouped[k].bsw_sum, FloatOf(grouped[k].count)),
             temperature |-> FloatDiv(grouped[k].temp_sum, FloatOf(grouped[k].count)),
             api_gravity |-> FloatDiv(grouped[k].api_sum, FloatOf(grouped[k].count))]]

\* the shrinkage as a fraction of the gross volume, not as a percentage
shrinkage_fraction(shrinkage, total_gross) ==
    IF total_gross > 0 THEN FloatDiv(shrinkage, total_gross) ELSE 0

\* main.py:195  (shrinkage / total_gross * 100) if total_gross > 0 else 0
shrinkage_percent(shrinkage, total_gross) ==
    IF total_gross > 0
    THEN FloatMul(FloatDiv(shrinkage, total_gross), FloatOf(100))
    ELSE 0

\* main.py:189-195, 218-226: the totals of a ReconciliationResult
ReconciliationResult(allocation_results) ==
    LET n == Len(allocation_results)
        total_gross ==
            FloatSum([i \in 1..n |-> FloatOf(allocation_results[i].gross_volume)], n)
        total_net_standard ==
            FloatSum([i \in 1..n |-> allocation_results[i].net_volume_standard], n)
        total_allocated ==
            FloatSum([i \in 1..n |-> allocation_results[i].allocated_volume], n)
        shrinkage == FloatSub(total_gross, total_allocated)
    IN  [total_gross_volume |-> total_gross,
         total_net_volume_standard |-> total_net_standard,
         total_allocated_volume |-> total_allocated,
         shrinkage_volume |-> shrinkage,
         shrinkage_percent |-> shrinkage_percent(shrinkage, total_gross)]

\* no totals were computed
NoTotals == ReconciliationResult(<<>>)

\* main.py:187-195: the engine after allocate_volumes ended with out
Reconciled(e, out) ==
    [e EXCEPT !.returned = TRUE,
              !.raised = out.raised,
              !.allocation_results = out.allocation_results,
              !.totals = IF out.raised = "none"
                         THEN ReconciliationResult(out.allocation_results)
                         ELSE NoTotals]

\* no call of allocate_volumes is looked at
IdleEngine ==
    [production_data |-> <<>>, terminal_volume |-> 0, returned |-> FALSE,
     raised |-> "none", allocation_results |-> <<>>, totals |-> NoTotals,
     readings |-> <<>>, aggregated |-> "none", production_inputs |-> <<>>]

----------------------------------------------------------------------------
(* Initial state: empty reconciliations collection, no trigger published.  *)
(* The period's production entries and the tenant document are input.      *)

\* an empty period; late counts the approved entries that were created
\* after the invocation in flight had counted all entries
NoEntries == [total |-> 0, approved |-> 0, invalid |-> FALSE, late |-> 0]

\* approved <= total; invalid: some approved entry carries a bsw_percent outside
\* [0, 100] or an api_gravity <= 0 (api/routers/demo.py:565-607 stores approved
\* entries without range validation)
EntriesUpTo(n) ==
    {e \in [total : 0..n, approved : 0..n, invalid : BOOLEAN, late : {0}] :
        e.approved <= e.total /\ (e.invalid => e.approved > 0)}

InitWith(n) ==
    /\ runs = [r \in RunIds |-> NoDocument]
    /\ entries \in EntriesUpTo(n)
    /\ tenant_exists \in BOOLEAN
    /\ pending = [r \in RunIds |-> 0]
    /\ delivered = 0
    /\ cb = [d \in Deliveries |-> IdleCallback]
    /\ breaker = NewBreaker
    /\ completions = [r \in RunIds |-> 0]
    /\ engine = IdleEngine
    /\ calls = NoCalls
    /\ retry = NoRetry
    /\ api = NoRequest

Init == InitWith(MaxRunEntries)

----------------------------------------------------------------------------
(* API: POST /reconciliations, api/routers/reconciliation.py:22-47 *)

\* Run ids are fresh uuids: "r2" is created after "r1".
trigger_reconciliation(r, published) ==
    /\ ~runs[r].exists
    /\ r = "r2" => runs["r1"].exists
    /\ runs' = [runs EXCEPT ![r] =
                  [NoDocument EXCEPT !.exists = TRUE, !.status = "pending"]]
    /\ pending' = [pending EXCEPT ![r] = IF published THEN 1 ELSE 0]
    /\ UNCHANGED <<entries, tenant_exists, engine, calls, retry, api, delivered, cb, breaker, completions>>

----------------------------------------------------------------------------
(* Trigger subscription: at-least-once delivery *)

\* main.py:320-328 sync_callback schedules async_callback(message);
\* main.py:279-290 the message is decoded and carries both ids
Receive(d, r) ==
    /\ d = delivered + 1
    /\ pending[r] > 0
    /\ pending' = [pending EXCEPT ![r] = @ - 1]
    /\ delivered' = d
    /\ cb' = [cb EXCEPT ![d] = [IdleCallback EXCEPT !.pc = "get_run", !.rid = r]]
    /\ UNCHANGED <<runs, entries, tenant_exists, engine, calls, retry, api, breaker, completions>>

\* A message that was delivered may be delivered again (duplicate delivery,
\* expiry of the ack deadline).
DuplicateDelivery(r) ==
    /\ pending[r] = 0
    /\ delivered < MaxDeliveries
    /\ \E d \in Deliveries : cb[d].rid = r
    /\ pending' = [pending EXCEPT ![r] = 1]
    /\ UNCHANGED <<runs, entries, tenant_exists, engine, calls, retry, api, delivered, cb, breaker, completions>>

----------------------------------------------------------------------------
(* async_callback, main.py:277-303.  perform_reconciliation returns or     *)
(* raises into the callback, which settles the message before it suspends  *)
(* again: each settling is part of the step that ends the coroutine.       *)

\* the invocation is over: its frame is gone, the message is settled
Settled(d, how) == [IdleCallback EXCEPT !.pc = how, !.rid = cb[d].rid]

\* main.py:293-297: perform_reconciliation returned, message.ack()
Ack(d) ==
    /\ cb' = [cb EXCEPT ![d] = Settled(d, "acked")]
    /\ UNCHANGED pending

\* a nack after which the message is not delivered again
NackDropped(d) ==
    /\ cb' = [cb EXCEPT ![d] = Settled(d, "nacked")]
    /\ UNCHANGED pending

\* main.py:299-303: perform_reconciliation raised, message.nack(); the nacked
\* message is delivered again
Nack(d) ==
    /\ cb' = [cb EXCEPT ![d] = Settled(d, "nacked")]
    /\ pending' = [pending EXCEPT ![cb[d].rid] = @ + 1]

----------------------------------------------------------------------------
(* perform_reconciliation, main.py:27-273: one action per awaited call,    *)
(* with the code that follows it up to the next await                      *)

\* an exception raised inside the try block: control passes to main.py:260,
\* where only e and reconciliation_id are used
Raise(d, e) ==
    /\ cb' = [cb EXCEPT ![d] =
                [IdleCallback EXCEPT !.pc = "except", !.rid = cb[d].rid, !.exc = e,
                                     !.raised_at = cb[d].pc]]
    /\ UNCHANGED pending

Goto(d, pc) ==
    /\ cb' = [cb EXCEPT ![d].pc = pc]
    /\ UNCHANGED pending

\* the load with a guard on the stored status: a run that is PROCESSING or
\* COMPLETED is not handled again
GetReconciliationGuarded(d, ok) ==
    /\ cb[d].pc = "get_run"
    /\ IF ~ok THEN Raise(d, "StoreError")
       ELSE IF \/ ~runs[cb[d].rid].exists
               \/ runs[cb[d].rid].status \in {"processing", "completed"}
            THEN Ack(d)
            ELSE /\ cb' = [cb EXCEPT ![d].pc = "set_processing",
                                     ![d].seen = runs[cb[d].rid].status]
                 /\ UNCHANGED pending
    /\ UNCHANGED <<runs, entries, tenant_exists, engine, calls, retry, api, delivered, breaker, completions>>

\* the load without the return of main.py:45-47
GetReconciliationNoExistsCheck(d, ok) ==
    /\ cb[d].pc = "get_run"
    /\ IF ~ok THEN Raise(d, "StoreError")
       ELSE /\ cb' = [cb EXCEPT ![d].pc = "set_processing",
                                ![d].seen = runs[cb[d].rid].status]
            /\ UNCHANGED pending
    /\ UNCHANGED <<runs, entries, tenant_exists, engine, calls, retry, api, delivered, breaker, completions>>

\* main.py:43-49
GetReconciliation(d, ok) ==
    /\ cb[d].pc = "get_run"
    /\ IF ~ok THEN Raise(d, "StoreError")
       ELSE IF ~runs[cb[d].rid].exists THEN Ack(d)
       ELSE /\ cb' = [cb EXCEPT ![d].pc = "set_processing",
                                ![d].seen = runs[cb[d].rid].status]
            /\ UNCHANGED pending
    /\ UNCHANGED <<runs, entries, tenant_exists, engine, calls, retry, api, delivered, breaker, completions>>

\* main.py:51-54
UpdateProcessing(d, ok) ==
    /\ cb[d].pc = "set_processing"
    /\ IF ok
       THEN /\ runs' = [runs EXCEPT ![cb[d].rid].status = "processing"]
            /\ Goto(d, "get_tenant")
       ELSE /\ Raise(d, "StoreError")
            /\ UNCHANGED runs
    /\ UNCHANGED <<entries, tenant_exists, engine, calls, retry, api, delivered, breaker, completions>>

\* main.py:56-66
GetTenant(d, ok) ==
    /\ cb[d].pc = "get_tenant"
    /\ IF ~ok THEN Raise(d, "StoreError")
       ELSE IF ~tenant_exists THEN Raise(d, "Tenant not found")
       ELSE Goto(d, "query_all")
    /\ UNCHANGED <<runs, entries, tenant_exists, engine, calls, retry, api, delivered, breaker, completions>>

\* the query without the empty-period return of main.py:79-85
QueryAllEntriesNoEmptyCheck(d, ok) ==
    /\ cb[d].pc = "query_all"
    /\ IF ~ok THEN Raise(d, "StoreError")
       ELSE /\ cb' = [cb EXCEPT ![d].pc = "query_approved",
                                ![d].total = entries.total]
            /\ UNCHANGED pending
    /\ UNCHANGED <<runs, entries, tenant_exists, engine, calls, retry, api, delivered, breaker, completions>>

\* main.py:68-79
QueryAllEntries(d, ok) ==
    /\ cb[d].pc = "query_all"
    /\ IF ~ok THEN Raise(d, "StoreError")
       ELSE /\ cb' = [cb EXCEPT ![d].pc = IF entries.total = 0 THEN "update_failed"
                                          ELSE "query_approved",
                                ![d].total = entries.total,
                                ![d].msg = IF entries.total = 0 THEN NoEntriesMessage
                                           ELSE NoMessage]
            /\ UNCHANGED pending
    /\ UNCHANGED <<runs, entries, tenant_exists, engine, calls, retry, api, delivered, breaker, completions>>

\* the query of the approved entries, which takes the entries it read out of
\* the approved ones
QueryApprovedEntriesConsuming(d, ok) ==
    /\ cb[d].pc = "query_approved"
    /\ IF ~ok THEN Raise(d, "StoreError") /\ UNCHANGED entries
       ELSE LET m == GateMessage(entries.approved, cb[d].total)
            IN  /\ cb' = [cb EXCEPT ![d].pc = IF m = NoMessage THEN "allocate"
                                              ELSE "update_failed",
                                    ![d].approved = entries.approved,
                                    ![d].invalid = entries.invalid,
                                    ![d].msg = m]
                /\ entries' = [entries EXCEPT !.approved = 0, !.invalid = FALSE]
                /\ UNCHANGED pending
    /\ UNCHANGED <<runs, tenant_exists, engine, calls, retry, api, delivered, breaker, completions>>

\* main.py:87-124, up to the update of the early return
QueryApprovedEntries(d, ok) ==
    /\ cb[d].pc = "query_approved"
    /\ IF ~ok THEN Raise(d, "StoreError")
       ELSE LET m == GateMessage(entries.approved, cb[d].total)
            IN  /\ cb' = [cb EXCEPT ![d].pc = IF m = NoMessage THEN "allocate"
                                              ELSE "update_failed",
                                    ![d].approved = entries.approved,
                                    ![d].invalid = entries.invalid,
                                    ![d].msg = m]
                /\ UNCHANGED pending
    /\ UNCHANGED <<runs, entries, tenant_exists, engine, calls, retry, api, delivered, breaker, completions>>

\* the document after update({"status": FAILED})
FailedDocumentNoReason(doc, msg) == [doc EXCEPT !.status = "failed"]

\* the document after update({"status": FAILED, "error_message": msg})
FailedDocument(doc, msg) == [doc EXCEPT !.status = "failed", !.error_message = msg]

\* an early return that publishes the completion notification
UpdateFailedAndPublish(d, ok) ==
    /\ cb[d].pc = "update_failed"
    /\ IF ok
       THEN /\ runs' = [runs EXCEPT ![cb[d].rid] = FailedDocument(@, cb[d].msg)]
            /\ completions' = [completions EXCEPT ![cb[d].rid] = @ + 1]
            /\ Ack(d)
       ELSE /\ Raise(d, "StoreError")
            /\ UNCHANGED <<runs, completions>>
    /\ UNCHANGED <<entries, tenant_exists, engine, calls, retry, api, delivered, breaker>>

\* main.py:81-85, 111-115, 120-124: the update of an early return, and the return
UpdateFailed(d, ok) ==
    /\ cb[d].pc = "update_failed"
    /\ IF ok
       THEN /\ runs' = [runs EXCEPT ![cb[d].rid] = FailedDocument(@, cb[d].msg)]
            /\ Ack(d)
       ELSE /\ Raise(d, "StoreError")
            /\ UNCHANGED runs
    /\ UNCHANGED <<entries, tenant_exists, engine, calls, retry, api, delivered, breaker, completions>>

\* main.py:126-226: the partner's name is read from the users collection (a
\* failed read is logged and leaves the fallback name, main.py:136-146), the
\* approved entries are aggregated and allocate_volumes runs;
\* calculate_water_cut_factor / calculate_specific_gravity raise ValueError
\* (allocation_engine.py:86-87, 101-102)
AllocateVolumes(d, ok) ==
    /\ cb[d].pc = "allocate"
    /\ IF cb[d].invalid THEN Raise(d, "ValueError")
       ELSE /\ cb' = [cb EXCEPT ![d].pc = "analyze", ![d].named = ok]
            /\ UNCHANGED pending
    /\ UNCHANGED <<runs, entries, tenant_exists, engine, calls, retry, api, delivered, breaker, completions>>

\* the analysis without the try of main.py:230-240: its failure reaches the
\* handler of main.py:260
AnalyzeReconciliationRaises(d, ok) ==
    /\ cb[d].pc = "analyze"
    /\ IF ok THEN Goto(d, "save") ELSE Raise(d, "StoreError")
    /\ UNCHANGED <<runs, entries, tenant_exists, engine, calls, retry, api, delivered, breaker, completions>>

\* main.py:228-240: a failure of the analysis is caught and logged
AnalyzeReconciliation(d, ok) ==
    /\ cb[d].pc = "analyze"
    /\ cb' = [cb EXCEPT ![d].pc = "save", ![d].ai = ok]
    /\ UNCHANGED <<runs, entries, tenant_exists, engine, calls, retry, api, pending, delivered, breaker, completions>>

\* the document after update(update_payload), main.py:243-251
CompletedDocument(doc, result, ai) ==
    [doc EXCEPT !.status = "completed", !.result = result, !.completed_at = TRUE,
                !.ai_analysis = (ai \/ doc.ai_analysis)]

\* main.py:242-255
SaveResults(d, ok) ==
    /\ cb[d].pc = "save"
    /\ IF ok
       THEN /\ runs' = [runs EXCEPT ![cb[d].rid] =
                          CompletedDocument(@, ComputeResult(cb[d].approved, cb[d].named),
                                            cb[d].ai)]
            /\ cb' = [cb EXCEPT ![d].pc = "publish", ![d].attempt = 1]
            /\ UNCHANGED pending
       ELSE /\ Raise(d, "StoreError")
            /\ UNCHANGED runs
    /\ UNCHANGED <<entries, tenant_exists, engine, calls, retry, api, delivered, breaker, completions>>

\* circuit_breaker.py:164-188: an attempt of the wrapped function raised e
AttemptFailed(d, e) ==
    IF cb[d].attempt = max_attempts
    THEN Raise(d, e)
    ELSE /\ cb' = [cb EXCEPT ![d].attempt = @ + 1]
         /\ UNCHANGED pending

\* main.py:258, publisher.py:131-140, 22-65: one attempt of publish_message
\* inside async_retry; the attempt runs without suspension (future.result()
\* blocks), the retry loop sleeps between attempts
PublishAttempt(d, ok) ==
    /\ cb[d].pc = "publish"
    /\ IF Rejects(breaker)
       THEN /\ AttemptFailed(d, "CircuitBreakerError")
            /\ UNCHANGED <<breaker, completions>>
       ELSE IF ok
            THEN /\ breaker' = on_success(Entered(breaker))
                 /\ completions' = [completions EXCEPT ![cb[d].rid] = @ + 1]
                 /\ Ack(d)
            ELSE /\ breaker' = on_failure(Entered(breaker))
                 /\ AttemptFailed(d, "PublishError")
                 /\ UNCHANGED completions
    /\ UNCHANGED <<runs, entries, tenant_exists, engine, calls, retry, api, delivered>>

\* the handler without the raise of main.py:273
ExceptHandlerSwallows(d, ok) ==
    /\ cb[d].pc = "except"
    /\ runs' = IF ok /\ runs[cb[d].rid].exists
               THEN [runs EXCEPT ![cb[d].rid] =
                       FailedDocument(@, ExceptionMessage(cb[d].exc))]
               ELSE runs
    /\ Ack(d)
    /\ UNCHANGED <<entries, tenant_exists, engine, calls, retry, api, delivered, breaker, completions>>

\* main.py:260-273: the update is attempted, its failure is logged, e is re-raised
ExceptHandler(d, ok) ==
    /\ cb[d].pc = "except"
    /\ runs' = IF ok /\ runs[cb[d].rid].exists
               THEN [runs EXCEPT ![cb[d].rid] =
                       FailedDocument(@, ExceptionMessage(cb[d].exc))]
               ELSE runs
    /\ Nack(d)
    /\ UNCHANGED <<entries, tenant_exists, engine, calls, retry, api, delivered, breaker, completions>>

\* circuit_breaker.py:78-79: recovery_timeout seconds pass after the last failure
TimePasses ==
    /\ breaker.state = "open"
    /\ breaker.last_failure_time = "recent"
    /\ breaker' = [breaker EXCEPT !.last_failure_time = "elapsed"]
    /\ UNCHANGED <<runs, entries, tenant_exists, engine, calls, retry, api, pending, delivered, cb, completions>>

----------------------------------------------------------------------------
(* One step of a callback invocation whose reads of the users collection   *)
(* succeed; the step of a failed read is AllocateVolumes(d, FALSE)         *)
Step(d) ==
    \/ \E ok \in BOOLEAN : GetReconciliation(d, ok)
    \/ \E ok \in BOOLEAN : UpdateProcessing(d, ok)
    \/ \E ok \in BOOLEAN : GetTenant(d, ok)
    \/ \E ok \in BOOLEAN : QueryAllEntries(d, ok)
    \/ \E ok \in BOOLEAN : QueryApprovedEntries(d, ok)
    \/ \E ok \in BOOLEAN : UpdateFailed(d, ok)
    \/ AllocateVolumes(d, TRUE)
    \/ \E ok \in BOOLEAN : AnalyzeReconciliation(d, ok)
    \/ \E ok \in BOOLEAN : SaveResults(d, ok)
    \/ \E ok \in BOOLEAN : PublishAttempt(d, ok)
    \/ \E ok \in BOOLEAN : ExceptHandler(d, ok)

Next ==
    \/ \E published \in BOOLEAN : trigger_reconciliation("r1", published)
    \/ \E d \in Deliveries, r \in RunIds : Receive(d, r)
    \/ \E r \in RunIds : DuplicateDelivery(r)
    \/ \E d \in Deliveries : Step(d)
    \/ TimePasses

Spec == Init /\ [][Next]_vars

----------------------------------------------------------------------------
(* The gate specification: one delivery of one trigger, over every pair of *)
(* approved and total counts up to MaxEntries.                             *)

InitGate == InitWith(MaxEntries)

NextGate ==
    \/ \E published \in BOOLEAN : trigger_reconciliation("r1", published)
    \/ Receive(1, "r1")
    \/ Step(1)

SpecGate == InitGate /\ [][NextGate]_vars

----------------------------------------------------------------------------
(* The live specification: one delivery of one trigger, while field        *)
(* operators submit production entries for the period and the auditor      *)
(* agent validates them.                                                   *)

\* the entries created since the invocation counted all entries
\* (main.py:71-77), while it waits for the approved ones (main.py:87-93)
CreatedSinceCount ==
    IF cb[1].pc = "query_approved" THEN entries.total - cb[1].total ELSE 0

\* api/routers/production.py:63-89: a new entry of the period, status PENDING
create_production_entry ==
    /\ entries.total < MaxRunEntries + MaxCreated
    /\ entries' = [entries EXCEPT !.total = @ + 1]
    /\ UNCHANGED <<runs, tenant_exists, engine, calls, retry, api, pending, delivered, cb,
                   breaker, completions>>

\* agents/auditor/main.py:197-209: the auditor sets an entry without anomaly
\* to APPROVED; late: the entry was created after the invocation in flight
\* had counted all entries
validate_entry(late) ==
    /\ IF late
       THEN entries.late < CreatedSinceCount
       ELSE entries.approved - entries.late < entries.total - CreatedSinceCount
    /\ entries' = [entries EXCEPT !.approved = @ + 1,
                                  !.late = IF late THEN @ + 1 ELSE @]
    /\ UNCHANGED <<runs, tenant_exists, engine, calls, retry, api, pending, delivered, cb,
                   breaker, completions>>

NextLive ==
    \/ \E published \in BOOLEAN : trigger_reconciliation("r1", published)
    \/ Receive(1, "r1")
    \/ Step(1)
    \/ create_production_entry
    \/ \E late \in BOOLEAN : validate_entry(late)

SpecLive == Init /\ [][NextLive]_vars

----------------------------------------------------------------------------
(* The recovery specification: one run, whose trigger is handled by one    *)
(* invocation at a time.  Besides the trigger of the run the subscription  *)
(* delivers a trigger whose run record is gone and messages that lack the  *)
(* ids; the process may die while an invocation is in flight.              *)

\* positions of an invocation that is suspended in an await
InFlight == {"get_run", "set_processing", "get_tenant", "query_all", "query_approved",
             "update_failed", "allocate", "analyze", "save", "publish", "except"}

\* demo.py:652-669 deletes a run record; a trigger published for it
\* (reconciliation.py:42-45) that is still in the subscription names an id
\* under which the collection holds no document
StaleTrigger(r) ==
    /\ ~runs[r].exists
    /\ pending[r] = 0
    /\ \A d \in Deliveries : cb[d].rid # r
    /\ pending' = [pending EXCEPT ![r] = 1]
    /\ UNCHANGED <<runs, entries, tenant_exists, engine, calls, retry, api, delivered, cb, breaker, completions>>

\* a message that lacks the ids is nacked
MalformedTriggerNacked(d) ==
    /\ d = delivered + 1
    /\ delivered' = d
    /\ cb' = [cb EXCEPT ![d] = [IdleCallback EXCEPT !.pc = "nacked"]]
    /\ UNCHANGED <<runs, entries, tenant_exists, engine, calls, retry, api, pending, breaker, completions>>

\* main.py:279-290: a message whose data lacks reconciliation_id or tenant_id
\* is acked by the callback before anything is awaited
MalformedTrigger(d) ==
    /\ d = delivered + 1
    /\ delivered' = d
    /\ cb' = [cb EXCEPT ![d] = [IdleCallback EXCEPT !.pc = "acked"]]
    /\ UNCHANGED <<runs, entries, tenant_exists, engine, calls, retry, api, pending, breaker, completions>>

\* main.py:343-345 asyncio.run(main_async()): the process dies or is stopped
\* while invocations are suspended.  Their frames are lost (raised_at keeps
\* the await at which each was cancelled), their messages were not settled
\* and are delivered again after the ack deadline
\* (create-pubsub-topics.py:53-62); the module-level breaker starts anew
\* with the next process (circuit_breaker.py:272-276).
Crash ==
    /\ \E d \in Deliveries : cb[d].pc \in InFlight
    /\ cb' = [d \in Deliveries |->
                IF cb[d].pc \in InFlight
                THEN [Settled(d, "cancelled") EXCEPT !.raised_at = cb[d].pc]
                ELSE cb[d]]
    /\ pending' = [r \in RunIds |->
                     pending[r] + Cardinality({d \in Deliveries :
                                                 cb[d].pc \in InFlight /\ cb[d].rid = r})]
    /\ breaker' = NewBreaker
    /\ UNCHANGED <<runs, entries, tenant_exists, engine, calls, retry, api, delivered, completions>>

\* main.py:320-328 with one message outstanding at a time: the next message is
\* delivered when no invocation is in flight
ReceiveNext(d, r) ==
    /\ \A e \in Deliveries : cb[e].pc \notin InFlight
    /\ Receive(d, r)

NextRecovery ==
    \/ \E published \in BOOLEAN : trigger_reconciliation("r1", published)
    \/ StaleTrigger("r2")
    \/ \E d \in Deliveries : MalformedTrigger(d)
    \/ \E d \in Deliveries, r \in RunIds : ReceiveNext(d, r)
    \/ \E d \in Deliveries : Step(d)
    \/ \E d \in Deliveries : AllocateVolumes(d, FALSE)
    \/ Crash
    \/ TimePasses

SpecRecovery == Init /\ [][NextRecovery]_vars

----------------------------------------------------------------------------
(* The two-run specification: runs "r1" and "r2" of one tenant and period, *)
(* handled by one accountant process.  Every store and Pub/Sub operation   *)
(* of an invocation for "r2" succeeds; those of "r1" may fail.             *)

\* main.py:320-328: a message (a first delivery, or the redelivery of a
\* nacked one) is handled by a new invocation, which takes the first place
\* that is free or whose invocation has ended
ReceiveInto(d, r) ==
    /\ cb[d].pc \notin InFlight
    /\ \A e \in 1..(d - 1) : cb[e].pc \in InFlight
    /\ pending[r] > 0
    /\ delivered < MaxHandled
    /\ pending' = [pending EXCEPT ![r] = @ - 1]
    /\ delivered' = delivered + 1
    /\ cb' = [cb EXCEPT ![d] = [IdleCallback EXCEPT !.pc = "get_run", !.rid = r]]
    /\ UNCHANGED <<runs, entries, tenant_exists, engine, calls, retry, api, breaker, completions>>

\* one step of an invocation all of whose operations succeed
StepOk(d) ==
    \/ GetReconciliation(d, TRUE)
    \/ UpdateProcessing(d, TRUE)
    \/ GetTenant(d, TRUE)
    \/ QueryAllEntries(d, TRUE)
    \/ QueryApprovedEntries(d, TRUE)
    \/ UpdateFailed(d, TRUE)
    \/ AllocateVolumes(d, TRUE)
    \/ AnalyzeReconciliation(d, TRUE)
    \/ SaveResults(d, TRUE)
    \/ PublishAttempt(d, TRUE)
    \/ ExceptHandler(d, TRUE)

NextRuns ==
    \/ \E r \in RunIds : trigger_reconciliation(r, TRUE)
    \/ \E d \in Deliveries, r \in RunIds : ReceiveInto(d, r)
    \/ \E d \in Deliveries : cb[d].rid = "r1" /\ Step(d)
    \/ \E d \in Deliveries : cb[d].rid = "r2" /\ StepOk(d)
    \/ TimePasses

SpecRuns == Init /\ [][NextRuns]_vars

----------------------------------------------------------------------------
(* The progress specification: one run, whose trigger is delivered again   *)
(* after every nack and after every death of the process, without a bound  *)
(* on the number of deliveries.  The stores and the channel fail and the   *)
(* process dies any number of times, and then no more.                     *)

\* main.py:320-328, create-pubsub-topics.py:53-62: a message that is
\* outstanding is delivered when no invocation is in flight; delivered counts
\* the deliveries up to MaxHandled
Redeliver(d, r) ==
    /\ \A e \in Deliveries : cb[e].pc \notin InFlight
    /\ pending[r] > 0
    /\ pending' = [pending EXCEPT ![r] = @ - 1]
    /\ delivered' = IF delivered < MaxHandled THEN delivered + 1 ELSE delivered
    /\ cb' = [cb EXCEPT ![d] = [IdleCallback EXCEPT !.pc = "get_run", !.rid = r]]
    /\ UNCHANGED <<runs, entries, tenant_exists, engine, calls, retry, api, breaker, completions>>

NextProgress ==
    \/ \E published \in BOOLEAN : trigger_reconciliation("r1", published)
    \/ Redeliver(1, "r1")
    \/ Step(1) /\ breaker'.failure_count <= MaxFailureCount
    \/ Crash
    \/ TimePasses

\* a step at which a store or the channel fails, or the process dies
Fails ==
    \/ GetReconciliation(1, FALSE)
    \/ UpdateProcessing(1, FALSE)
    \/ GetTenant(1, FALSE)
    \/ QueryAllEntries(1, FALSE)
    \/ QueryApprovedEntries(1, FALSE)
    \/ UpdateFailed(1, FALSE)
    \/ SaveResults(1, FALSE)
    \/ ~Rejects(breaker) /\ PublishAttempt(1, FALSE)
    \/ cb[1].pc = "except" /\ runs[cb[1].rid].exists /\ ExceptHandler(1, FALSE)
    \/ Crash

\* main.py:320-328: the subscription delivers an outstanding message and the
\* event loop resumes a coroutine whose awaited call has ended (weak
\* fairness); from some point on no store operation and no publish fails and
\* the process stays up.
SpecProgress ==
    /\ Init
    /\ [][NextProgress]_vars
    /\ WF_vars(Redeliver(1, "r1"))
    /\ WF_vars(StepOk(1))
    /\ <>[][~Fails]_vars

----------------------------------------------------------------------------
(* The API specification: POST /reconciliations as the steps between its   *)
(* awaits, api/routers/reconciliation.py:22-47, one request at a time, and *)
(* the accountant that handles the triggers it publishes.  The operations  *)
(* of an invocation for "r1" may fail, those for "r2" succeed.             *)

\* terminal volumes of the request bodies
RequestVolumes == (0 - 1)..MaxTerminal

\* uuid4(): an id under which no document is stored
FreshId == IF ~runs["r1"].exists THEN "r1" ELSE "r2"

\* reconciliation.py:22-37: the body is validated as ReconciliationCreate
\* before the handler runs (a body that fails is answered with 422); the
\* handler draws the id and builds reconciliation_doc
PostReconciliation(terminal_volume) ==
    /\ api.pc \notin {"set", "publish"}
    /\ ~runs["r2"].exists
    /\ api' = IF terminal_volume_gt_0(terminal_volume)
              THEN [NoRequest EXCEPT !.pc = "set", !.rid = FreshId,
                                     !.terminal_volume = terminal_volume]
              ELSE [NoRequest EXCEPT !.pc = "rejected",
                                     !.terminal_volume = terminal_volume,
                                     !.raised = "ValidationError"]
    /\ UNCHANGED <<runs, entries, tenant_exists, engine, calls, retry, pending, delivered,
                   cb, breaker, completions>>

\* reconciliation.py:39: await ...document(reconciliation_id).set(reconciliation_doc)
SetDocument(ok) ==
    /\ api.pc = "set"
    /\ IF ok
       THEN /\ runs' = [runs EXCEPT ![api.rid] =
                          [NoDocument EXCEPT !.exists = TRUE, !.status = "pending"]]
            /\ api' = [api EXCEPT !.pc = "publish", !.attempt = 1]
       ELSE /\ api' = [api EXCEPT !.pc = "raised", !.raised = "StoreError"]
            /\ UNCHANGED runs
    /\ UNCHANGED <<entries, tenant_exists, engine, calls, retry, pending, delivered, cb,
                   breaker, completions>>

\* reconciliation.py:42-47, publisher.py:92-101, 22-65: one attempt of
\* publish_message inside async_retry, in the API process (a rejection by
\* its breaker is a failed attempt); the exception of the last attempt
\* leaves the handler, a success is followed by the 201 response
PublishTriggered(ok) ==
    /\ api.pc = "publish"
    /\ IF ok
       THEN /\ pending' = [pending EXCEPT ![api.rid] = @ + 1]
            /\ api' = [api EXCEPT !.pc = "returned"]
       ELSE /\ api' = IF api.attempt = max_attempts
                      THEN [api EXCEPT !.pc = "raised", !.raised = "PublishError"]
                      ELSE [api EXCEPT !.attempt = @ + 1]
            /\ UNCHANGED pending
    /\ UNCHANGED <<runs, entries, tenant_exists, engine, calls, retry, delivered, cb,
                   breaker, completions>>

NextApi ==
    \/ \E terminal_volume \in RequestVolumes : PostReconciliation(terminal_volume)
    \/ \E ok \in BOOLEAN : SetDocument(ok)
    \/ \E ok \in BOOLEAN : PublishTriggered(ok)
    \/ \E d \in Deliveries, r \in RunIds : Receive(d, r)
    \/ \E d \in Deliveries : cb[d].rid = "r1" /\ Step(d)
    \/ \E d \in Deliveries : cb[d].rid = "r2" /\ StepOk(d)

SpecApi == Init /\ [][NextApi]_vars

----------------------------------------------------------------------------
(* The engine specification: one call of allocate_volumes over every list  *)
(* of up to MaxPartners partner inputs and every terminal volume up to     *)
(* MaxTerminal.                                                            *)

\* main.py:167-178: the inputs are built from the keys of partner_data: n
\* different partners, here in ascending or in descending order
PartnerOrders(n) == {[i \in 1..n |-> i], [i \in 1..n |-> n + 1 - i]}

InitEngine ==
    /\ runs = [r \in RunIds |-> NoDocument]
    /\ entries = NoEntries
    /\ tenant_exists = TRUE
    /\ pending = [r \in RunIds |-> 0]
    /\ delivered = 0
    /\ cb = [d \in Deliveries |-> IdleCallback]
    /\ breaker = NewBreaker
    /\ completions = [r \in RunIds |-> 0]
    /\ calls = NoCalls
    /\ retry = NoRetry
    /\ api = NoRequest
    /\ \E n \in 0..MaxPartners :
          \E m \in [1..n -> Measurements], partner_ids \in PartnerOrders(n) :
             \E terminal_volume \in 0..MaxTerminal :
                engine = [IdleEngine EXCEPT
                             !.production_data =
                                 [i \in 1..n |-> ProductionData(partner_ids[i], m[i])],
                             !.terminal_volume = terminal_volume]

\* main.py:187-195  allocation_results = engine.allocate_volumes(production_inputs,
\* terminal_volume), then the totals over the results; a ValueError of the
\* engine leaves the try block before the totals
CallAllocateVolumes ==
    /\ ~engine.returned
    /\ engine' = Reconciled(engine, allocate_volumes(engine.production_data,
                                                     engine.terminal_volume))
    /\ UNCHANGED <<runs, entries, tenant_exists, pending, delivered, cb, breaker,
                   completions, calls, retry, api>>

NextEngine == CallAllocateVolumes

SpecEngine == InitEngine /\ [][NextEngine]_vars

----------------------------------------------------------------------------
(* The breaker specification: one caller makes up to MaxCalls calls of     *)
(*     async with pubsub_breaker: <protected operation>                    *)
(* one after the other, as publish_message does; the operation returns,    *)
(* raises an Exception or is cancelled.                                    *)

Outcomes == {"success", "Exception", "CancelledError"}

InitBreaker ==
    /\ runs = [r \in RunIds |-> NoDocument]
    /\ entries = NoEntries
    /\ tenant_exists = TRUE
    /\ pending = [r \in RunIds |-> 0]
    /\ delivered = 0
    /\ cb = [d \in Deliveries |-> IdleCallback]
    /\ breaker = NewBreaker
    /\ completions = [r \in RunIds |-> 0]
    /\ engine = IdleEngine
    /\ calls = NoCalls
    /\ retry = NoRetry
    /\ api = NoRequest

\* publisher.py:47-65, circuit_breaker.py:74-102: __aenter__, the protected
\* operation with the given outcome, __aexit__; the block has no await
BreakerCall(outcome) ==
    /\ calls.made < MaxCalls
    /\ IF Rejects(breaker)
       THEN /\ calls' = [calls EXCEPT !.made = @ + 1,
                                      !.outcome = "CircuitBreakerError",
                                      !.invoked = FALSE]
            /\ UNCHANGED breaker
       ELSE /\ calls' = [calls EXCEPT
                            !.made = @ + 1,
                            !.outcome = outcome,
                            !.invoked = TRUE,
                            !.streak = CASE outcome = "success" -> 0
                                         [] outcome = "Exception" -> @ + 1
                                         [] OTHER -> @]
            /\ breaker' = Exited(Entered(breaker), outcome)
    /\ UNCHANGED <<runs, entries, tenant_exists, engine, pending, delivered, cb,
                   completions, retry, api>>

NextBreaker ==
    \/ \E outcome \in Outcomes : BreakerCall(outcome)
    \/ TimePasses

SpecBreaker == InitBreaker /\ [][NextBreaker]_vars

----------------------------------------------------------------------------
(* The callers specification: up to MaxCallers callers use one breaker as  *)
(*     async with gemini_breaker: response = await asyncio.to_thread(...)  *)
(* (shared/ai/gemini_service.py:84-88, 182-186).  A caller is suspended    *)
(* inside the block, so the calls of different callers overlap; between    *)
(* them the breaker may be reset.                                          *)

Callers == 1..MaxCallers

\* circuit_breaker.py:74-87  __aenter__ of caller c
Enter(c) ==
    /\ c \notin calls.inside
    /\ calls.made < MaxCalls
    /\ IF Rejects(breaker)
       THEN /\ calls' = [calls EXCEPT !.made = @ + 1,
                                      !.outcome = "CircuitBreakerError",
                                      !.invoked = FALSE]
            /\ UNCHANGED breaker
       ELSE /\ calls' = [calls EXCEPT !.made = @ + 1,
                                      !.outcome = "none",
                                      !.invoked = TRUE,
                                      !.inside = @ \cup {c}]
            /\ breaker' = Entered(breaker)
    /\ UNCHANGED <<runs, entries, tenant_exists, engine, pending, delivered, cb,
                   completions, retry, api>>

\* circuit_breaker.py:89-102  __aexit__ of caller c, whose block ended with
\* outcome
Exit(c, outcome) ==
    /\ c \in calls.inside
    /\ calls' = [calls EXCEPT !.outcome = outcome,
                              !.invoked = TRUE,
                              !.inside = @ \ {c}]
    /\ breaker' = Exited(breaker, outcome)
    /\ UNCHANGED <<runs, entries, tenant_exists, engine, pending, delivered, cb,
                   completions, retry, api>>

\* circuit_breaker.py:129-134  reset() of a breaker that was used
Reset ==
    /\ breaker # NewBreaker
    /\ breaker' = reset(breaker)
    /\ calls' = [calls EXCEPT !.outcome = "reset", !.invoked = FALSE]
    /\ UNCHANGED <<runs, entries, tenant_exists, engine, pending, delivered, cb,
                   completions, retry, api>>

NextCallers ==
    \/ \E c \in Callers : Enter(c)
    \/ \E c \in Callers, outcome \in Outcomes : Exit(c, outcome)
    \/ Reset
    \/ TimePasses

SpecCallers == InitBreaker /\ [][NextCallers]_vars

----------------------------------------------------------------------------
(* The retry specification: one call of a function wrapped by async_retry, *)
(* under every policy of RetryPolicies; each attempt returns, raises an    *)
(* Exception or is cancelled.                                              *)

InitRetry ==
    /\ runs = [r \in RunIds |-> NoDocument]
    /\ entries = NoEntries
    /\ tenant_exists = TRUE
    /\ pending = [r \in RunIds |-> 0]
    /\ delivered = 0
    /\ cb = [d \in Deliveries |-> IdleCallback]
    /\ breaker = NewBreaker
    /\ completions = [r \in RunIds |-> 0]
    /\ engine = IdleEngine
    /\ calls = NoCalls
    /\ api = NoRequest
    /\ \E policy \in RetryPolicies :
          retry = [NoRetry EXCEPT !.policy = policy, !.pc = "call", !.attempt = 1]

\* circuit_breaker.py:164-176: one pass of the loop up to the return, the
\* raise or the sleep; an exception that is not caught leaves the wrapper
Attempt(outcome) ==
    /\ retry.pc = "call"
    /\ retry' =
          CASE outcome = "success" ->
                 [retry EXCEPT !.invocations = @ + 1, !.outcome = outcome,
                               !.pc = "done", !.ended = "returned"]
            [] outcome \in Retried /\ retry.attempt # retry.policy.max_attempts ->
                 [retry EXCEPT !.invocations = @ + 1, !.outcome = outcome,
                               !.failures = @ + 1, !.pc = "sleep"]
            [] outcome \in Retried /\ retry.attempt = retry.policy.max_attempts ->
                 [retry EXCEPT !.invocations = @ + 1, !.outcome = outcome,
                               !.failures = @ + 1, !.pc = "done", !.ended = "raised"]
            [] OTHER ->
                 [retry EXCEPT !.invocations = @ + 1, !.outcome = outcome,
                               !.pc = "done", !.ended = "raised"]
    /\ UNCHANGED <<runs, entries, tenant_exists, pending, delivered, cb, breaker,
                   completions, engine, calls, api>>

\* circuit_breaker.py:178-188  await asyncio.sleep(delay), then the next pass
Sleep ==
    /\ retry.pc = "sleep"
    /\ retry' = [retry EXCEPT !.slept = Append(@, delay(retry.policy, retry.attempt)),
                              !.attempt = @ + 1,
                              !.pc = "call"]
    /\ UNCHANGED <<runs, entries, tenant_exists, pending, delivered, cb, breaker,
                   completions, engine, calls, api>>

\* circuit_breaker.py:188: the task is cancelled while it sleeps
SleepCancelled ==
    /\ retry.pc = "sleep"
    /\ retry' = [retry EXCEPT !.outcome = "CancelledError", !.pc = "done",
                              !.ended = "raised"]
    /\ UNCHANGED <<runs, entries, tenant_exists, pending, delivered, cb, breaker,
                   completions, engine, calls, api>>

NextRetry ==
    \/ \E outcome \in Outcomes : Attempt(outcome)
    \/ Sleep
    \/ SleepCancelled

SpecRetry == InitRetry /\ [][NextRetry]_vars

----------------------------------------------------------------------------
(* The aggregation specification: the readings of one period are loaded,   *)
(* checked against the approval threshold and grouped by partner.  A       *)
(* period holds up to MaxReadings readings of any partner and status,      *)
(* followed by none or by LongPeriod approved readings of the first        *)
(* partner.                                                                *)

\* the measurements of the approved readings: all four fields differ
\* between the two
ReadingMeasurements ==
    {OneBarrel,
     [gross_volume |-> 2, bsw_percent |-> 10, temperature |-> 100, api_gravity |-> 30]}

\* a measurement that stands out in every field, for the readings that are
\* not approved
Outlier ==
    [gross_volume |-> 7, bsw_percent |-> 90, temperature |-> 150, api_gravity |-> 10]

\* a reading of the production_entries collection
Reading(partner_id, status, m) ==
    [partner_id |-> partner_id, status |-> status,
     gross_volume |-> m.gross_volume, bsw_percent |-> m.bsw_percent,
     temperature |-> m.temperature, api_gravity |-> m.api_gravity]

Readings ==
    {Reading(p, "approved", m) : p \in PartnerIds, m \in ReadingMeasurements}
        \cup {Reading(p, "pending", Outlier) : p \in PartnerIds}

InitAggregate ==
    /\ runs = [r \in RunIds |-> NoDocument]
    /\ entries = NoEntries
    /\ tenant_exists = TRUE
    /\ pending = [r \in RunIds |-> 0]
    /\ delivered = 0
    /\ cb = [d \in Deliveries |-> IdleCallback]
    /\ breaker = NewBreaker
    /\ completions = [r \in RunIds |-> 0]
    /\ calls = NoCalls
    /\ retry = NoRetry
    /\ api = NoRequest
    /\ \E n \in 0..MaxReadings, further \in {0, LongPeriod} :
          \E free \in [1..n -> Readings] :
             engine = [IdleEngine EXCEPT
                          !.readings =
                              free \o [i \in 1..further |->
                                          Reading(1, "approved", OneBarrel)]]

\* main.py:69-178: both queries, the checks on their counts, and the
\* grouping of the approved entries by partner
AggregateReadings ==
    /\ engine.aggregated = "none"
    /\ LET all_entries == engine.readings
           approved == approved_entries(engine.readings)
       IN  IF \/ Len(all_entries) = 0
              \/ ApprovalBelowThreshold(Len(approved), Len(all_entries))
              \/ Len(approved) = 0
           THEN engine' = [engine EXCEPT !.aggregated = "failed"]
           ELSE engine' = [engine EXCEPT !.aggregated = "done",
                                         !.production_inputs = production_inputs(approved)]
    /\ UNCHANGED <<runs, entries, tenant_exists, pending, delivered, cb, breaker,
                   completions, calls, retry, api>>

NextAggregate == AggregateReadings

SpecAggregate == InitAggregate /\ [][NextAggregate]_vars

----------------------------------------------------------------------------
(* Vocabulary of the properties *)

\* delivery d takes the step
Steps(d) == cb'[d] # cb[d]

\* positions after the PENDING -> PROCESSING write and before the run is settled
Computing == {"get_tenant", "query_all", "query_approved", "update_failed",
              "allocate", "analyze", "save"}

\* positions behind the approval gate
PastGate == {"allocate", "analyze", "save", "publish"}

\* the exact sum of the ownership percentages of the first n results
RECURSIVE SumOwnership(_, _)
SumOwnership(results, n) ==
    IF n = 0 THEN 0 ELSE SumOwnership(results, n - 1) + results[n].ownership_percent

\* the exact sum of the allocated volumes of the first n results
RECURSIVE SumAllocated(_, _)
SumAllocated(results, n) ==
    IF n = 0 THEN 0 ELSE SumAllocated(results, n - 1) + results[n].allocated_volume

\* the exact sum of the gross volumes of the first n results, in barrels
RECURSIVE SumGross(_, _)
SumGross(results, n) ==
    IF n = 0 THEN 0 ELSE SumGross(results, n - 1) + results[n].gross_volume

\* the call returned its results without raising
Returned == engine.returned /\ engine.raised = "none"

\* the pool total of the call: the sum of the net standard volumes
PoolTotal == TotalNetStandard(engine.production_data, Len(engine.production_data))

\* all inputs of the call have the bsw_percent (below 100), the temperature
\* and the api_gravity of the first
IdenticalConditions ==
    /\ Len(engine.production_data) > 0
    /\ engine.production_data[1].bsw_percent < 100
    /\ \A i \in DOMAIN engine.production_data :
          /\ engine.production_data[i].bsw_percent = engine.production_data[1].bsw_percent
          /\ engine.production_data[i].temperature = engine.production_data[1].temperature
          /\ engine.production_data[i].api_gravity = engine.production_data[1].api_gravity

\* a step that is the __aexit__ of a block that ended with outcome
Exits(outcome) ==
    /\ calls'.inside # calls.inside
    /\ calls'.inside \subseteq calls.inside
    /\ calls'.outcome = outcome

\* the caller of the breaker specification makes a call
Calls == calls'.made = calls.made + 1

\* |x - y|
Distance(x, y) == IF x >= y THEN x - y ELSE y - x

\* p is the percentage approved / total * 100 in tenths, to the nearest tenth
IsPercentInTenths(p, approved, total) ==
    /\ 2 * (p * total - approved * 1000) <= total
    /\ 2 * (approved * 1000 - p * total) <= total

----------------------------------------------------------------------------
(* C1: COMPLETED and FAILED are terminal: once the stored status of a run  *)
(* is COMPLETED or FAILED, no step changes it again.                       *)
C1_TerminalStatusIsFinal ==
    [][\A r \in RunIds :
         runs[r].status \in {"completed", "failed"}
            => runs'[r].status = runs[r].status]_vars

(* C2: for any run, at most one invocation at a time is past the           *)
(* PENDING -> PROCESSING transition and executing the computation steps.   *)
C2_AtMostOneExecution ==
    \A d1, d2 \in Deliveries :
        (d1 # d2 /\ cb[d1].rid = cb[d2].rid)
            => ~(cb[d1].pc \in Computing /\ cb[d2].pc \in Computing)

(* C3: an invocation that loaded the run with stored status PROCESSING or  *)
(* COMPLETED writes nothing to the run record and publishes no completion  *)
(* notification.                                                           *)
C3_DuplicateHasNoSideEffects ==
    [][\A d \in Deliveries :
         (cb[d].seen \in {"processing", "completed"} /\ Steps(d))
            => (runs' = runs /\ completions' = completions)]_vars

(* C4: when publishing the completion notification has failed, the step of *)
(* the exception handler leaves the stored status of the run as it was     *)
(* (COMPLETED): no write of FAILED follows a publish failure.              *)
C4_PublishFailureKeepsStatus ==
    [][\A d \in Deliveries :
         (cb[d].pc = "except" /\ cb[d].raised_at = "publish" /\ Steps(d))
            => runs'[cb[d].rid].status = runs[cb[d].rid].status]_vars

(* C5: reconciliation never completes on insufficient-quality data: an     *)
(* invocation that counted total > 0 entries of which fewer than 90% are   *)
(* approved never reaches aggregation, allocation, the result write or the *)
(* publish; its write sets status FAILED with a reason carrying the        *)
(* approved count, the total count and the percentage, stores no result    *)
(* and publishes nothing, and the invocation returns (ack).  The only      *)
(* other outcome of that write is that the store rejects it: then nothing  *)
(* is written and the exception handler takes over.                        *)
C5_InsufficientApprovalFailsRun ==
    /\ [](\A d \in Deliveries :
            cb[d].pc \in PastGate
               => (cb[d].total > 0 /\ cb[d].approved * 100 >= 90 * cb[d].total))
    /\ [][\A d \in Deliveries :
            LET r == cb[d].rid
                a == entries.approved
                t == cb[d].total
            IN  /\ (cb[d].pc = "query_approved" /\ t > 0 /\ a * 100 < 90 * t /\ Steps(d))
                      => /\ cb'[d].pc \in {"update_failed", "except"}
                         /\ runs' = runs
                         /\ completions' = completions
                /\ (cb[d].pc = "update_failed" /\ t > 0
                       /\ cb[d].approved = a /\ a * 100 < 90 * t /\ Steps(d))
                      => /\ completions' = completions
                         /\ runs'[r].result = runs[r].result
                         /\ \/ /\ cb'[d].pc = "acked"
                               /\ pending' = pending
                               /\ runs'[r].status = "failed"
                               /\ runs'[r].error_message.text =
                                    "Insufficient approved production data for reconciliation."
                               /\ runs'[r].error_message.approved = a
                               /\ runs'[r].error_message.total = t
                               /\ IsPercentInTenths(runs'[r].error_message.pct10, a, t)
                            \/ /\ cb'[d].pc = "except"
                               /\ runs' = runs]_vars

\* an invocation returned at the gate: 1 of 2 entries approved (50.0%), the run
\* is FAILED with the counts in its reason, no result, nothing published
C5_Witness ==
    \E d \in Deliveries :
        /\ cb[d].pc = "acked"
        /\ cb[d].rid = "r1"
        /\ entries.total = 2 /\ entries.approved = 1
        /\ runs["r1"].status = "failed"
        /\ runs["r1"].error_message =
             ErrorMessage("Insufficient approved production data for reconciliation.",
                          1, 2, 500)
        /\ ~runs["r1"].result.present
        /\ completions["r1"] = 0

(* C6: the gate boundary is inclusive: for every approved and total count  *)
(* with total > 0, the step that evaluates the gate takes the failure      *)
(* return exactly when approved / total < 0.90, and otherwise proceeds to  *)
(* aggregation and allocation (so exactly 90% proceeds).                   *)
C6_GateBoundaryInclusive ==
    [][\A d \in Deliveries :
         (cb[d].pc = "query_approved" /\ cb[d].total > 0 /\ Steps(d)
             /\ cb'[d].pc # "except")
            => IF 10 * entries.approved < 9 * cb[d].total
               THEN cb'[d].pc = "update_failed"
               ELSE cb'[d].pc = "allocate"]_vars

\* exactly 90%: 9 of 10 entries approved, the invocation is in aggregation
C6_Witness ==
    \E d \in Deliveries :
        cb[d].pc = "allocate" /\ cb[d].approved = 9 /\ cb[d].total = 10

(* C7: when the period holds no entries at all, the invocation does not    *)
(* query or compute further: it writes status FAILED with the reason "No   *)
(* production entries found for the period.", stores no result, publishes  *)
(* nothing and returns normally (the message is acked, not nacked).  The   *)
(* only other outcome of that write is that the store rejects it.          *)
C7_NoEntriesFailsRun ==
    /\ [](\A d \in Deliveries :
            cb[d].pc \in ({"query_approved"} \cup PastGate) => cb[d].total > 0)
    /\ [][\A d \in Deliveries :
            LET r == cb[d].rid
            IN  /\ (cb[d].pc = "query_all" /\ entries.total = 0 /\ Steps(d))
                      => /\ cb'[d].pc \in {"update_failed", "except"}
                         /\ cb'[d].pc = "update_failed" => cb'[d].total = 0
                         /\ runs' = runs
                         /\ completions' = completions
                /\ (cb[d].pc = "update_failed" /\ cb[d].total = 0 /\ Steps(d))
                      => /\ completions' = completions
                         /\ runs'[r].result = runs[r].result
                         /\ \/ /\ cb'[d].pc = "acked"
                               /\ pending' = pending
                               /\ runs'[r].status = "failed"
                               /\ runs'[r].error_message.text =
                                    "No production entries found for the period."
                            \/ /\ cb'[d].pc = "except"
                               /\ runs' = runs]_vars

\* an invocation returned on an empty period: FAILED, no result, nothing published
C7_Witness ==
    \E d \in Deliveries :
        /\ cb[d].pc = "acked"
        /\ cb[d].rid = "r1"
        /\ entries.total = 0
        /\ runs["r1"].status = "failed"
        /\ runs["r1"].error_message.text = "No production entries found for the period."
        /\ ~runs["r1"].result.present
        /\ completions["r1"] = 0

(* C8: a period with zero approved entries fails with the no-data reason,  *)
(* never with the insufficient-approval reason: no stored reason is the    *)
(* insufficient-approval message with an approved count of 0.              *)
C8_ZeroApprovedIsNoData ==
    \A r \in RunIds :
        runs[r].error_message.text =
            "Insufficient approved production data for reconciliation."
           => runs[r].error_message.approved > 0

(* C9: data-quality failures are not retried: an invocation that ends on   *)
(* the no-entries, no-approved or insufficient-approval return, or on a    *)
(* ValueError of the correction math, ends with the message acked and not  *)
(* put back for redelivery.                                                *)
C9_DataQualityFailureIsAcked ==
    [][\A d \in Deliveries :
         (/\ \/ cb[d].pc = "update_failed"
             \/ (cb[d].pc = "except" /\ cb[d].exc = "ValueError")
          /\ cb'[d].pc \in {"acked", "nacked"})
            => (cb'[d].pc = "acked" /\ pending' = pending)]_vars

(* C10: the exception handler, entered from a step between loading the     *)
(* tenant and persisting the result, re-raises: the message is nacked and  *)
(* put back for redelivery; its write sets status FAILED with the text of  *)
(* the exception as reason and changes nothing else of the run record      *)
(* (when the store rejects that write the record is left as it was).       *)
C10_ExceptionFailsRunAndNacks ==
    [][\A d \in Deliveries :
         LET r == cb[d].rid
         IN  (cb[d].pc = "except" /\ Steps(d)
                /\ cb[d].raised_at \in {"get_tenant", "query_all", "query_approved",
                                        "update_failed", "allocate", "save"})
               => /\ cb'[d].pc = "nacked"
                  /\ pending'[r] = pending[r] + 1
                  /\ completions' = completions
                  /\ \/ runs' = [runs EXCEPT ![r].status = "failed",
                                             ![r].error_message.text = cb[d].exc,
                                             ![r].error_message.approved = 0,
                                             ![r].error_message.total = 0,
                                             ![r].error_message.pct10 = 0]
                     \/ runs' = runs]_vars

\* the tenant document is missing: the run is FAILED with that reason and the
\* message was nacked and waits for redelivery
C10_Witness ==
    \E d \in Deliveries :
        /\ cb[d].pc = "nacked"
        /\ cb[d].rid = "r1"
        /\ ~tenant_exists
        /\ runs["r1"].status = "failed"
        /\ runs["r1"].error_message.text = "Tenant not found"
        /\ pending["r1"] > 0

(* C11: a trigger that names a run id under which no record is stored is   *)
(* dropped: the step that loads the run and finds none returns, the        *)
(* message is acked and not put back, nothing is written and nothing is    *)
(* published; the only other outcome of the load is that the store rejects *)
(* the read.  No step of an invocation creates a record that is absent.    *)
C11_StaleTriggerIsDropped ==
    /\ [][\A d \in Deliveries :
            (cb[d].pc = "get_run" /\ ~runs[cb[d].rid].exists /\ Steps(d)
                /\ cb'[d].pc # "cancelled")
               => /\ runs' = runs
                  /\ completions' = completions
                  /\ pending' = pending
                  /\ cb'[d].pc \in {"acked", "except"}
                  /\ cb'[d].pc = "except" => cb'[d].exc = "StoreError"]_vars
    /\ [][(\E d \in Deliveries : Steps(d))
            => \A r \in RunIds : ~runs[r].exists => runs'[r] = runs[r]]_vars

\* the trigger of the absent run "r2" was handled: acked, not waiting for
\* redelivery, no record, nothing published
C11_Witness ==
    \E d \in Deliveries :
        /\ cb[d].pc = "acked"
        /\ cb[d].rid = "r2"
        /\ runs["r2"] = NoDocument
        /\ pending["r2"] = 0
        /\ completions["r2"] = 0

(* C12: a stored run carries a result only if it succeeded and an error    *)
(* reason only if it failed: no run carries both a result and a reason, a  *)
(* FAILED run carries no result, and a COMPLETED run carries a result and  *)
(* no reason.                                                              *)
C12_ResultOnlyOnSuccess ==
    \A r \in RunIds :
        /\ ~(runs[r].result.present /\ runs[r].error_message # NoMessage)
        /\ runs[r].status = "failed" => ~runs[r].result.present
        /\ runs[r].status = "completed"
              => (runs[r].result.present /\ runs[r].error_message = NoMessage)

(* C13: every run whose stored status is FAILED carries an error reason:   *)
(* a step that writes status FAILED is the update of an early return or    *)
(* the update of the exception handler, and it sets error_message in the   *)
(* same write, to the message of the early return or to the text of the    *)
(* exception.                                                              *)
C13_FailedCarriesReason ==
    /\ [](\A r \in RunIds :
            runs[r].status = "failed" => runs[r].error_message.text # "")
    /\ [][\A d \in Deliveries :
            (cb[d].pc \in InFlight /\ Steps(d)
                /\ runs'[cb[d].rid] # runs[cb[d].rid]
                /\ runs'[cb[d].rid].status = "failed")
               => /\ cb[d].pc \in {"update_failed", "except"}
                  /\ runs'[cb[d].rid].error_message.text # ""
                  /\ cb[d].pc = "update_failed"
                        => runs'[cb[d].rid].error_message.text \in
                             {NoEntriesMessage.text, NoApprovedMessage.text,
                              InsufficientMessage(1, 1).text}
                  /\ cb[d].pc = "except"
                        => runs'[cb[d].rid].error_message = ExceptionMessage(cb[d].exc)]_vars

\* an approved entry with an out-of-range reading made the correction math
\* raise: the run is FAILED and its reason is the text of the exception
C13_Witness ==
    \E d \in Deliveries :
        /\ cb[d].pc = "nacked"
        /\ entries.invalid
        /\ runs["r1"].status = "failed"
        /\ runs["r1"].error_message.text = "ValueError"

(* C14: a completion notification is published only on success.  An       *)
(* invocation reaches the publish only through the update that stores       *)
(* status COMPLETED with the result and the completion timestamp; a         *)
(* notification is published only by the publish step of an invocation, one *)
(* at a time and under the id of that invocation's run, and that step ends  *)
(* the invocation normally; the steps of the early returns, of the          *)
(* run-not-found return and of the exception handler publish nothing.       *)
C14_CompletionOnlyOnSuccess ==
    /\ [](\A d \in Deliveries :
            cb[d].pc = "publish"
               => (runs[cb[d].rid].result.present /\ runs[cb[d].rid].completed_at))
    /\ [][\A d \in Deliveries :
            (cb[d].pc \in InFlight /\ cb[d].pc # "publish" /\ cb'[d].pc = "publish")
               => /\ cb[d].pc = "save"
                  /\ runs'[cb[d].rid].status = "completed"
                  /\ runs'[cb[d].rid].result.present
                  /\ runs'[cb[d].rid].result.partners = cb[d].approved
                  /\ runs'[cb[d].rid].completed_at
                  /\ completions' = completions]_vars
    /\ [][\A r \in RunIds :
            completions'[r] # completions[r]
               => \E d \in Deliveries :
                     /\ cb[d].pc = "publish"
                     /\ cb[d].rid = r
                     /\ cb'[d].pc = "acked"
                     /\ completions' = [completions EXCEPT ![r] = @ + 1]
                     /\ runs' = runs]_vars

\* a run was saved COMPLETED and its notification was published once
C14_Witness ==
    \E d \in Deliveries :
        /\ cb[d].pc = "acked"
        /\ cb[d].rid = "r1"
        /\ completions["r1"] = 1
        /\ runs["r1"].status = "completed"
        /\ runs["r1"].result.present
        /\ runs["r1"].completed_at

(* C15: the callback settles each delivery once and by the outcome.  A     *)
(* message that lacks an id is acked at once and nothing else happens; an  *)
(* invocation is acked when perform_reconciliation returns (run not found, *)
(* an early return of the gate, or success) and the message is not put     *)
(* back; it is nacked, and the message put back, exactly when the          *)
(* exception handler has run; a settled delivery is never settled again,   *)
(* and every invocation in flight has a step to take until it is settled.  *)
C15_SettledOnceByOutcome ==
    /\ [](\A d \in Deliveries : cb[d].pc \in InFlight => ENABLED Step(d))
    /\ [][\A d \in Deliveries :
            /\ cb[d].pc \in {"acked", "nacked"} => cb'[d] = cb[d]
            /\ (cb[d].pc = "idle" /\ Steps(d))
                  => \/ cb'[d].pc = "get_run" /\ cb'[d].rid \in RunIds
                     \/ /\ cb'[d].pc = "acked" /\ cb'[d].rid = "none"
                        /\ UNCHANGED <<runs, pending, completions>>
            /\ (cb[d].pc \in InFlight /\ cb'[d].pc = "acked")
                  => /\ cb[d].pc \in {"get_run", "update_failed", "publish"}
                     /\ pending' = pending
            /\ (cb[d].pc \in InFlight /\ cb'[d].pc = "nacked")
                  => /\ cb[d].pc = "except"
                     /\ pending' = [pending EXCEPT ![cb[d].rid] = @ + 1]
            /\ (cb[d].pc = "except" /\ Steps(d) /\ cb'[d].pc # "cancelled")
                  => cb'[d].pc = "nacked"
            /\ (cb[d].pc \in InFlight \ {"except"} /\ Steps(d))
                  => cb'[d].pc # "nacked"]_vars

\* a message without ids was acked, and a delivery of run "r1" whose
\* processing raised was nacked and waits for redelivery
C15_Witness ==
    \E d1, d2 \in Deliveries :
        /\ cb[d1].pc = "acked" /\ cb[d1].rid = "none"
        /\ cb[d2].pc = "nacked" /\ cb[d2].rid = "r1"
        /\ pending["r1"] = 1

(* C16: re-running is result-idempotent: when an invocation saves a result *)
(* for a run that already carries the result of an earlier invocation (the *)
(* stored entries, the tenant settings and the terminal volume do not      *)
(* change in this specification), the result it stores is the one that is  *)
(* stored already.                                                         *)
C16_RerunStoresSameResult ==
    [][\A d \in Deliveries :
         (cb[d].pc = "save" /\ Steps(d)
             /\ runs[cb[d].rid].result.present
             /\ runs'[cb[d].rid].status = "completed")
            => runs'[cb[d].rid].result = runs[cb[d].rid].result]_vars

C18_RunsAreIndependent ==
    /\ [][\A d \in Deliveries :
            (cb[d].pc \in InFlight /\ Steps(d))
               => \A r \in RunIds \ {cb[d].rid} : runs'[r] = runs[r]]_vars
    /\ [](\A d \in Deliveries :
            cb[d].rid = "r2" => cb[d].exc # "CircuitBreakerError")
    /\ [](runs["r2"].status = "failed"
            => runs["r2"].error_message.text
                  \notin {"CircuitBreakerError", "PublishError", "StoreError"})

(* C19: the stored readings are read-only input of the orchestrator: no   *)
(* step of an invocation changes a production entry or the tenant          *)
(* document, and the only run record a step writes is the one named by the *)
(* trigger of its invocation.                                              *)
C19_ReadingsAreReadOnly ==
    [][\A d \in Deliveries :
         (cb[d].pc \in InFlight /\ Steps(d))
            => /\ entries' = entries
               /\ tenant_exists' = tenant_exists
               /\ \A r \in RunIds :
                     runs'[r] # runs[r] => r = cb[d].rid]_vars

\* run "r2" was handled to COMPLETED over approved entries while the record
\* of run "r1" still is as the API created it
C19_Witness ==
    \E d \in Deliveries :
        /\ cb[d].pc = "acked"
        /\ cb[d].rid = "r2"
        /\ runs["r2"].status = "completed"
        /\ runs["r1"] = [NoDocument EXCEPT !.exists = TRUE, !.status = "pending"]
        /\ entries.approved > 0
        /\ tenant_exists

(* C20: for every non-empty list of inputs that allocate_volumes accepts:  *)
(* when the pool total is positive, the ownership percentages of the       *)
(* results sum to 100; when the pool total is zero, every ownership        *)
(* percentage and every allocated volume is 0, and the call returns.       *)
C20_OwnershipSumsTo100 ==
    (/\ engine.returned
     /\ Len(engine.production_data) > 0
     /\ \A i \in DOMAIN engine.production_data : Accepted(engine.production_data[i]))
       => LET results == engine.allocation_results
              total == TotalNetStandard(engine.production_data,
                                        Len(engine.production_data))
          IN  /\ engine.raised = "none"
              /\ Len(results) = Len(engine.production_data)
              /\ total > 0 => SumOwnership(results, Len(results)) = FloatOf(100)
              /\ total = 0 => \A i \in DOMAIN results :
                                 /\ results[i].ownership_percent = 0
                                 /\ results[i].allocated_volume = 0

(* C20, amended: as above, with the sum of the ownership percentages for   *)
(* a positive pool total within the rounding error of the float            *)
(* operations: |sum - 100| <= 100 * (n + 2) * 2^-MantissaBits for n        *)
(* results.                                                                *)
C20_OwnershipSumsTo100WithinRounding ==
    (/\ engine.returned
     /\ Len(engine.production_data) > 0
     /\ \A i \in DOMAIN engine.production_data : Accepted(engine.production_data[i]))
       => LET results == engine.allocation_results
              total == TotalNetStandard(engine.production_data,
                                        Len(engine.production_data))
          IN  /\ engine.raised = "none"
              /\ Len(results) = Len(engine.production_data)
              /\ total > 0
                    => MantissaLimit
                          * Distance(SumOwnership(results, Len(results)), FloatOf(100))
                       <= 100 * (Len(results) + 2) * Unit
              /\ total = 0 => \A i \in DOMAIN results :
                                 /\ results[i].ownership_percent = 0
                                 /\ results[i].allocated_volume = 0

\* two accepted inputs over a positive pool total whose ownership
\* percentages, each rounded, do not add up to 100 exactly
C20_Witness ==
    /\ engine.returned
    /\ engine.raised = "none"
    /\ Len(engine.allocation_results) = 2
    /\ engine.allocation_results[1].total_net_standard_volume > 0
    /\ SumOwnership(engine.allocation_results, 2) # FloatOf(100)

C22_DegenerateArgumentsRejected ==
    (/\ engine.returned
     /\ \/ engine.terminal_volume <= 0
        \/ Len(engine.production_data) = 0)
       => /\ engine.raised = "ValueError"
          /\ engine.allocation_results = <<>>

(* C23: the correction functions validate their inputs: a call of         *)
(* allocate_volumes fails exactly when some partner input has an           *)
(* api_gravity of 0 or less (calculate_specific_gravity) or a bsw_percent  *)
(* outside [0, 100] (calculate_water_cut_factor); a failing call returns   *)
(* no results, not even for the inputs before the offending one, and any   *)
(* other call returns a result for every input.                            *)
C23_InvalidInputsAreRejected ==
    engine.returned
       => LET data == engine.production_data
              invalid == {i \in DOMAIN data :
                             \/ data[i].api_gravity <= 0
                             \/ data[i].bsw_percent < 0
                             \/ data[i].bsw_percent > 100}
          IN  /\ engine.raised = "ValueError" <=> invalid # {}
              /\ engine.raised = "ValueError" => engine.allocation_results = <<>>
              /\ engine.raised = "none"
                    => Len(engine.allocation_results) = Len(data)

\* a call whose second input is the only invalid one failed without results
C23_Witness ==
    /\ engine.returned
    /\ Len(engine.production_data) = 2
    /\ Accepted(engine.production_data[1])
    /\ engine.production_data[1].gross_volume > 0
    /\ engine.production_data[2].bsw_percent < 0
    /\ engine.raised = "ValueError"
    /\ engine.allocation_results = <<>>

(* C24: allocate_volumes returns exactly one result per input, in input   *)
(* order: the i-th result has the partner_id, gross_volume and bsw_percent *)
(* of the i-th input; and what the call returns is a function of its       *)
(* inputs and the terminal volume (the standard temperature is fixed).     *)
C24_OneResultPerInputInOrder ==
    Returned
       => LET data == engine.production_data
              results == engine.allocation_results
          IN  /\ Len(results) = Len(data)
              /\ \A i \in DOMAIN data :
                    /\ results[i].partner_id = data[i].partner_id
                    /\ results[i].gross_volume = data[i].gross_volume
                    /\ results[i].bsw_percent = data[i].bsw_percent
              /\ results = allocate_volumes(data, engine.terminal_volume).allocation_results

\* two inputs of different partners with different volumes and water cuts
\* came back as two results
C24_Witness ==
    /\ Returned
    /\ Len(engine.production_data) = 2
    /\ Len(engine.allocation_results) = 2
    /\ engine.production_data[1].partner_id # engine.production_data[2].partner_id
    /\ engine.production_data[1].gross_volume > engine.production_data[2].gross_volume
    /\ engine.production_data[1].bsw_percent < engine.production_data[2].bsw_percent
    /\ engine.allocation_results[2].partner_id = engine.production_data[2].partner_id

(* C25: the totals computed over the results of a run: total_gross_volume *)
(* is the sum of the partners' gross volumes, total_allocated_volume is    *)
(* the sum of the partners' allocated volumes (added in order, as floats), *)
(* shrinkage_volume is total_gross_volume - total_allocated_volume, and    *)
(* shrinkage_percent is shrinkage_volume / total_gross_volume * 100, or 0  *)
(* when total_gross_volume is 0.                                           *)
C25_TotalsOfTheResults ==
    Returned
       => LET results == engine.allocation_results
              n == Len(results)
              totals == engine.totals
          IN  /\ totals.total_gross_volume = SumGross(results, n) * Unit
              /\ totals.total_allocated_volume
                    = FloatSum([i \in 1..n |-> results[i].allocated_volume], n)
              /\ totals.shrinkage_volume
                    = FloatSub(totals.total_gross_volume, totals.total_allocated_volume)
              /\ totals.total_gross_volume = 0 => totals.shrinkage_percent = 0
              /\ totals.total_gross_volume # 0
                    => totals.shrinkage_percent
                          = FloatMul(FloatDiv(totals.shrinkage_volume,
                                              totals.total_gross_volume),
                                     FloatOf(100))

\* two partners were allocated less than they produced: the shrinkage is
\* positive, and below the whole gross volume
C25_Witness ==
    /\ Returned
    /\ Len(engine.allocation_results) = 2
    /\ engine.allocation_results[1].allocated_volume > 0
    /\ engine.allocation_results[2].allocated_volume > 0
    /\ engine.totals.shrinkage_volume > 0
    /\ engine.totals.shrinkage_percent > 0
    /\ engine.totals.shrinkage_percent < FloatOf(100)

(* C26: aggregation produces exactly one input per distinct partner among *)
(* the approved readings of the period, in order of first appearance: its  *)
(* gross volume is the sum of that partner's approved gross volumes, and   *)
(* its bsw_percent, temperature and api_gravity are the arithmetic means   *)
(* over that partner's approved readings (sums and quotients of floats);   *)
(* the readings that are not approved contribute to no aggregate.          *)
C26_OneInputPerApprovedPartner ==
    engine.aggregated = "done"
       => LET inputs == engine.production_inputs
              approved == SelectSeq(engine.readings,
                                    LAMBDA r : r.status = "approved")
              Of(p) == SelectSeq(approved, LAMBDA r : r.partner_id = p)
              First(p) == CHOOSE i \in DOMAIN approved :
                             /\ approved[i].partner_id = p
                             /\ \A j \in 1..(i - 1) : approved[j].partner_id # p
              Mean(values) == FloatDiv(FloatSum(values, Len(values)),
                                       FloatOf(Len(values)))
          IN  /\ {inputs[k].partner_id : k \in DOMAIN inputs}
                    = {approved[i].partner_id : i \in DOMAIN approved}
              /\ \A k, l \in DOMAIN inputs :
                    k < l => First(inputs[k].partner_id) < First(inputs[l].partner_id)
              /\ \A k \in DOMAIN inputs :
                    LET own == Of(inputs[k].partner_id)
                    IN  /\ inputs[k].gross_volume
                              = FloatSum([i \in DOMAIN own |->
                                             FloatOf(own[i].gross_volume)], Len(own))
                        /\ inputs[k].bsw_percent
                              = Mean([i \in DOMAIN own |-> FloatOf(own[i].bsw_percent)])
                        /\ inputs[k].temperature
                              = Mean([i \in DOMAIN own |-> FloatOf(own[i].temperature)])
                        /\ inputs[k].api_gravity
                              = Mean([i \in DOMAIN own |-> FloatOf(own[i].api_gravity)])

\* a long period whose first reading, of partner 2, is not approved; partner
\* 1 and then partner 2 follow with approved readings, and partner 2 has two
\* with different measurements
C26_Witness ==
    /\ engine.aggregated = "done"
    /\ Len(engine.readings) = MaxReadings + LongPeriod
    /\ engine.readings[1].status = "pending"
    /\ engine.readings[1].partner_id = 2
    /\ engine.readings[2].partner_id = 2
    /\ engine.readings[3].partner_id = 2
    /\ engine.readings[2].gross_volume # engine.readings[3].gross_volume
    /\ Len(engine.production_inputs) = 2
    /\ engine.production_inputs[1].partner_id = 2

(* C27: at standard conditions the corrections are the identity: for an   *)
(* input whose observed temperature is the standard temperature, the       *)
(* temperature-correction factor and the API-correction factor are both 1  *)
(* and the net standard volume is gross * (1 - bsw / 100); hence a single  *)
(* partner with BSW 0 at standard temperature and a terminal volume equal  *)
(* to its gross volume gets ownership 100, an allocated volume equal to    *)
(* its gross volume, and shrinkage 0.                                      *)
C27_StandardConditionsAreIdentity ==
    Returned
       => LET data == engine.production_data
              results == engine.allocation_results
          IN  /\ \A i \in DOMAIN data :
                    data[i].temperature = temperature_standard
                       => /\ results[i].temperature_correction_factor = FloatOf(1)
                          /\ results[i].api_correction_factor = FloatOf(1)
                          /\ results[i].net_volume_standard
                                = FloatMul(FloatOf(data[i].gross_volume),
                                           FloatSub(FloatOf(1),
                                                    FloatDiv(FloatOf(data[i].bsw_percent),
                                                             FloatOf(100))))
              /\ (/\ Len(data) = 1
                  /\ data[1].temperature = temperature_standard
                  /\ data[1].bsw_percent = 0
                  /\ engine.terminal_volume = data[1].gross_volume)
                    => /\ results[1].ownership_percent = FloatOf(100)
                       /\ results[1].allocated_volume = FloatOf(data[1].gross_volume)
                       /\ engine.totals.shrinkage_volume = 0

(* C28: when all partners have identical BSW% (below 100), temperature    *)
(* and API gravity, each partner's ownership percentage equals its share   *)
(* of the summed gross volume, gross / summed gross * 100, and its         *)
(* allocated volume equals the terminal volume times that share.           *)
C28_IdenticalConditionsShareByGross ==
    (Returned /\ IdenticalConditions)
       => LET results == engine.allocation_results
              summed == SumGross(results, Len(results))
          IN  summed > 0
                 => \A i \in DOMAIN results :
                       LET share == FloatMul(FloatDiv(FloatOf(results[i].gross_volume),
                                                      FloatOf(summed)),
                                             FloatOf(100))
                       IN  /\ results[i].ownership_percent = share
                           /\ results[i].allocated_volume
                                 = FloatMul(FloatOf(engine.terminal_volume),
                                            FloatDiv(share, FloatOf(100)))

(* C28, amended: under identical conditions each ownership percentage is   *)
(* the partner's share of the summed gross volume within the rounding      *)
(* error of the float operations, |ownership - gross / summed * 100| <=    *)
(* 100 * (n + 8) * 2^-MantissaBits for n partners, and each allocated      *)
(* volume is the terminal volume times the share within terminal *         *)
(* (n + 10) * 2^-MantissaBits.                                             *)
C28_IdenticalConditionsShareByGrossWithinRounding ==
    (Returned /\ IdenticalConditions)
       => LET results == engine.allocation_results
              n == Len(results)
              summed == SumGross(results, n)
          IN  summed > 0
                 => \A i \in DOMAIN results :
                       /\ Distance(results[i].ownership_percent * summed,
                                   100 * results[i].gross_volume * Unit)
                             <= (100 * (n + 8) * summed * Unit) \div MantissaLimit
                       /\ Distance(results[i].allocated_volume * summed,
                                   engine.terminal_volume * results[i].gross_volume * Unit)
                             <= (engine.terminal_volume * (n + 10) * summed * Unit)
                                   \div MantissaLimit

\* two partners with a tenth of water in their oil and different gross
\* volumes share a positive terminal volume; the ownership of the first is
\* not the float nearest to its share of the gross volume
C28_Witness ==
    /\ Returned
    /\ IdenticalConditions
    /\ Len(engine.allocation_results) = 2
    /\ engine.production_data[1].bsw_percent = 10
    /\ engine.production_data[1].gross_volume > 0
    /\ engine.production_data[2].gross_volume > engine.production_data[1].gross_volume
    /\ engine.terminal_volume > 0
    /\ engine.allocation_results[1].ownership_percent
          # FloatMul(FloatDiv(FloatOf(engine.production_data[1].gross_volume),
                              FloatOf(SumGross(engine.allocation_results, 2))),
                     FloatOf(100))

(* C29: the breaker opens after failure_threshold consecutive counted     *)
(* failures: a call that raises the expected exception increments          *)
(* failure_count, a call that returns resets it to 0, so failure_count is  *)
(* the number of calls that raised since the last that returned; a CLOSED  *)
(* breaker becomes OPEN exactly with the failure that brings failure_count *)
(* to failure_threshold; and after failure_threshold (5) failing calls in  *)
(* a row, the next call within the recovery timeout raises                 *)
(* CircuitBreakerError.                                                    *)
C29_OpensAtThreshold ==
    [][Calls
         => /\ (calls'.invoked /\ calls'.outcome = "Exception")
                  => breaker'.failure_count = breaker.failure_count + 1
            /\ (calls'.invoked /\ calls'.outcome = "success")
                  => breaker'.failure_count = 0
            /\ breaker'.failure_count = calls'.streak
            /\ (breaker.state = "closed" /\ breaker'.state = "open")
                  <=> /\ breaker.state = "closed"
                      /\ calls'.invoked
                      /\ calls'.outcome = "Exception"
                      /\ breaker'.failure_count = failure_threshold
            /\ (calls.streak >= failure_threshold
                   /\ breaker.last_failure_time = "recent")
                  => calls'.outcome = "CircuitBreakerError"]_vars

\* after a call that returned, the failure_threshold-th failing call in a
\* row has just opened the breaker
C29_Witness ==
    /\ breaker.state = "open"
    /\ breaker.failure_count = failure_threshold
    /\ calls.outcome = "Exception"
    /\ calls.invoked
    /\ calls.streak = failure_threshold
    /\ calls.made > failure_threshold

(* C30: while the breaker is OPEN and the recovery timeout has not elapsed *)
(* since the last failure, every call is rejected with CircuitBreakerError *)
(* before the protected operation is invoked; a rejection changes neither  *)
(* state, failure_count nor last_failure_time.                             *)
C30_OpenBreakerRejects ==
    [][Calls
         => /\ (breaker.state = "open" /\ breaker.last_failure_time # "elapsed")
                  => /\ calls'.outcome = "CircuitBreakerError"
                     /\ ~calls'.invoked
            /\ calls'.outcome = "CircuitBreakerError"
                  => /\ ~calls'.invoked
                     /\ breaker' = breaker]_vars

\* the second call in a row was rejected by the open breaker, which still
\* holds the count and the time of the failure that opened it
C30_Witness ==
    /\ calls.outcome = "CircuitBreakerError"
    /\ ~calls.invoked
    /\ calls.made >= failure_threshold + 2
    /\ calls.streak = failure_threshold
    /\ breaker = [state |-> "open", failure_count |-> failure_threshold,
                  last_failure_time |-> "recent"]

(* C31: recovery of the breaker.  The breaker goes from OPEN to HALF_OPEN  *)
(* only in the __aenter__ of a call made after the recovery timeout has    *)
(* elapsed since the last failure; an __aexit__ that finds it HALF_OPEN    *)
(* closes it with failure_count 0 and last_failure_time cleared when the   *)
(* block returned, and opens it again when the block raised the expected   *)
(* exception; and no step but reset() takes it from OPEN to CLOSED.        *)
C31_RecoversThroughHalfOpen ==
    [][/\ (breaker.state = "open" /\ breaker'.state = "half_open")
           => /\ breaker.last_failure_time = "elapsed"
              /\ Calls
              /\ calls'.invoked
       /\ (breaker.state = "half_open" /\ Exits("success"))
           => breaker' = NewBreaker
       /\ (breaker.state = "half_open" /\ Exits("Exception"))
           => breaker'.state = "open"
       /\ (breaker.state = "open" /\ breaker'.state = "closed")
           => calls'.outcome = "reset"]_vars

(* C32: the state of the breaker agrees with its counters: while it is     *)
(* OPEN, failure_count >= failure_threshold and last_failure_time is set;  *)
(* while it is CLOSED, failure_count < failure_threshold; while it is      *)
(* HALF_OPEN, failure_count >= failure_threshold.                          *)
C32_StateAgreesWithCounters ==
    /\ breaker.state = "open"
          => /\ breaker.failure_count >= failure_threshold
             /\ breaker.last_failure_time # "none"
    /\ breaker.state = "closed" => breaker.failure_count < failure_threshold
    /\ breaker.state = "half_open" => breaker.failure_count >= failure_threshold

C34_GateSeesOneSnapshot ==
    [][\A d \in Deliveries :
          (cb[d].pc = "query_approved" /\ cb'[d].pc \in {"allocate", "update_failed"})
             => /\ cb'[d].approved <= cb'[d].total
                /\ cb'[d].pc = "allocate" => entries.late = 0]_vars

\* C35: progress.  Under delivery that repeats after a nack or a death of the
\* process, and stores and a channel that eventually stop failing, a run whose
\* trigger was published and whose stored status is PENDING or PROCESSING
\* eventually has stored status COMPLETED or FAILED.
C35_PublishedRunEndsTerminal ==
    (/\ runs["r1"].status \in {"pending", "processing"}
     /\ \/ pending["r1"] > 0
        \/ \E d \in Deliveries : cb[d].rid = "r1")
       ~> runs["r1"].status \in {"completed", "failed"}

\* a run that completed at a later delivery of its trigger, after a nack
C35_Witness ==
    /\ runs["r1"].status = "completed"
    /\ cb[1].pc = "acked"
    /\ delivered >= 2
    /\ completions["r1"] = 1

\* the handler of delivery d runs and its write of FAILED fails
\* (main.py:262-270), the run record being stored
HandlerWriteFails(d) ==
    /\ cb[d].pc = "except"
    /\ runs[cb[d].rid].exists
    /\ ExceptHandler(d, FALSE)

C37_AnalysisFailureKeepsOutcome ==
    [][\A d \in Deliveries :
          /\ (cb[d].pc = "analyze" /\ \E ok \in BOOLEAN : AnalyzeReconciliation(d, ok))
                => /\ cb'[d].pc = "save"
                   /\ runs' = runs
                   /\ pending' = pending
          /\ (cb[d].pc = "save" /\ ~cb[d].ai /\ SaveResults(d, TRUE))
                => LET rid == cb[d].rid
                       result == ComputeResult(cb[d].approved, cb[d].named)
                   IN  /\ runs'[rid].status = "completed"
                       /\ runs'[rid].result = result
                       /\ runs'[rid] =
                             [CompletedDocument(runs[rid], result, TRUE)
                                EXCEPT !.ai_analysis = runs[rid].ai_analysis]
                       /\ cb'[d].pc = "publish"
          /\ (cb[d].pc = "publish" /\ ~cb[d].ai /\ ~Rejects(breaker)
                 /\ PublishAttempt(d, TRUE))
                => /\ completions'[cb[d].rid] = completions[cb[d].rid] + 1
                   /\ cb'[d].pc = "acked"]_vars

\* a run completed, published and acked whose analysis failed
C37_Witness ==
    \E d \in Deliveries :
       /\ cb[d].pc = "acked"
       /\ cb[d].rid \in RunIds
       /\ runs[cb[d].rid].status = "completed"
       /\ runs[cb[d].rid].result.present
       /\ ~runs[cb[d].rid].ai_analysis
       /\ completions[cb[d].rid] = 1

\* the trigger of run r was published
TriggerPublished(r) == pending[r] > 0 \/ \E d \in Deliveries : cb[d].rid = r

====
